---- MODULE Spec2Model ----
(***************************************************************************)
(* Contrast arena: the rules engine (core/), the wire conventions          *)
(* (common/protocol.hpp) and the authoritative match server                *)
(* (server/main.cpp), as a state machine.                                  *)
(***************************************************************************)
EXTENDS Integers, Sequences, FiniteSets, TLC

(***************************************************************************)
(* core/include/contrast/types.hpp                                         *)
(***************************************************************************)
BOARD_W == 5
BOARD_H == 5

\* enum class Player : uint8_t { None = 0, Black = 1, White = 2 }
PlayerValue(p) == IF p = "None" THEN 0 ELSE IF p = "Black" THEN 1 ELSE 2

\* enum class TileType : uint8_t { None = 0, Black = 1, Gray = 2 }
TileValue(t) == IF t = "None" THEN 0 ELSE IF t = "Black" THEN 1 ELSE 2

(***************************************************************************)
(* core/include/contrast/board.hpp, core/src/board.cpp                     *)
(***************************************************************************)
NumCells == BOARD_W * BOARD_H

in_bounds(x, y) == x >= 0 /\ x < BOARD_W /\ y >= 0 /\ y < BOARD_H

\* Board::at : cells_[y * width() + x]
at(b, x, y) == b[y * BOARD_W + x]

\* Board::reset : row y=0 Black, row y=4 White, no tiles
Board_reset ==
  [i \in 0..(NumCells - 1) |->
     [occupant |-> IF i \in 0..4 THEN "Black"
                   ELSE IF i \in 20..24 THEN "White" ELSE "None",
      tile |-> "None"]]

(***************************************************************************)
(* core/include/contrast/move.hpp, move_list.hpp                           *)
(***************************************************************************)
MAX_MOVES == 2048

\* struct Move with its default member values
MoveDefault ==
  [sx |-> -1, sy |-> -1, dx |-> -1, dy |-> -1,
   place_tile |-> FALSE, tx |-> -1, ty |-> -1, tile |-> "None"]

\* MoveList::push_back : silently drops what does not fit
push_back(list, m) == IF Len(list) < MAX_MOVES THEN Append(list, m) ELSE list

\* MoveList::operator[] : the array behind the list starts as MAX_MOVES default moves
MoveList_at(list, i) == IF i \in 1..Len(list) THEN list[i] ELSE MoveDefault

RECURSIVE push_all(_, _, _)
push_all(list, ms, k) ==
  IF k > Len(ms) THEN list
  ELSE IF Len(list) + (Len(ms) - k + 1) <= MAX_MOVES
       THEN list \o SubSeq(ms, k, Len(ms))
       ELSE push_all(push_back(list, ms[k]), ms, k + 1)

(***************************************************************************)
(* core/include/contrast/game_state.hpp, core/src/game_state.cpp           *)
(***************************************************************************)
\* struct TileInventory { int black = 3; int gray = 1; }
TileInventory == [black |-> 3, gray |-> 1]

\* 64-bit unsigned values are kept as four 16-bit limbs, least significant first
Limb == 65536

\* std::size_t seed = 1469598103934665603ULL  (= 0x14650fb0739d0383)
FnvOffset == <<899, 29597, 4016, 5221>>

\* low two bits of a ^ v, for v in 0..3
XorLow(a, v) ==
  LET lo == a % 4
      x0 == ((lo % 2) + (v % 2)) % 2
      x1 == ((lo \div 2) + (v \div 2)) % 2
  IN  (a - lo) + x0 + 2 * x1

\* seed *= 1099511628211  (= 2^40 + 435), modulo 2^64
MulPrime(s) ==
  LET c0 == s[1] * 435
      c1 == s[2] * 435 + (c0 \div Limb)
      c2 == s[3] * 435 + (c1 \div Limb)
      c3 == s[4] * 435 + (c2 \div Limb)
      s2 == (c2 % Limb) + (s[1] % 256) * 256
      s3 == (c3 % Limb) + (s[1] \div 256) + (s[2] % 256) * 256 + (s2 \div Limb)
  IN  <<c0 % Limb, c1 % Limb, s2 % Limb, s3 % Limb>>

\* auto mix = [&](uint64_t v){ seed ^= v; seed *= 1099511628211ULL; }
mix(seed, v) == MulPrime(<<XorLow(seed[1], v), seed[2], seed[3], seed[4]>>)

RECURSIVE HashCells(_, _, _)
HashCells(seed, b, i) ==
  IF i >= NumCells THEN seed
  ELSE LET s1 == mix(mix(seed, PlayerValue(b[i].occupant)), TileValue(b[i].tile))
       IN  \* the seed is a value before the next cell is mixed in
           IF Len(s1) = 4 THEN HashCells(s1, b, i + 1) ELSE s1

\* GameState::compute_hash
compute_hash(s) == mix(HashCells(FnvOffset, s.board, 0), PlayerValue(s.to_move))

\* history_[h] += 1  (operator[] default-constructs a missing entry as 0)
HistoryIncrement(hist, h) ==
  IF h \in DOMAIN hist THEN [hist EXCEPT ![h] = @ + 1] ELSE (h :> 1) @@ hist

\* GameState::inventory(p)
inventory(s, p) == IF p = "Black" THEN s.inv_black ELSE s.inv_white

\* GameState::GameState() / GameState::reset
GameState_reset ==
  LET s0 == [board |-> Board_reset, to_move |-> "Black",
             inv_black |-> TileInventory, inv_white |-> TileInventory]
  IN  [board |-> s0.board, to_move |-> s0.to_move,
       inv_black |-> s0.inv_black, inv_white |-> s0.inv_white,
       history |-> (compute_hash(s0) :> 1)]

Opponent(p) == IF p = "Black" THEN "White" ELSE "Black"

\* variant: every placed tile is taken from the Black stock, whatever its colour
PlaceTile_from_black_stock(s, b1, m, p) ==
  IF m.place_tile /\ in_bounds(m.tx, m.ty)
     /\ at(b1, m.tx, m.ty).tile = "None" /\ at(b1, m.tx, m.ty).occupant = "None"
  THEN LET inv == inventory(s, p)
           inv2 == [inv EXCEPT !.black = IF inv.black > 0 THEN inv.black - 1 ELSE inv.black]
       IN  [board |-> [b1 EXCEPT ![m.ty * BOARD_W + m.tx].tile = m.tile],
            inv_black |-> IF p = "Black" THEN inv2 ELSE s.inv_black,
            inv_white |-> IF p = "Black" THEN s.inv_white ELSE inv2]
  ELSE [board |-> b1, inv_black |-> s.inv_black, inv_white |-> s.inv_white]

\* the tile part of GameState::apply_move, on the board after the piece moved
PlaceTile(s, b1, m, p) ==
  IF m.place_tile /\ in_bounds(m.tx, m.ty)
     /\ at(b1, m.tx, m.ty).tile = "None" /\ at(b1, m.tx, m.ty).occupant = "None"
  THEN LET inv == inventory(s, p)
           inv2 == [black |-> IF m.tile = "Black" /\ inv.black > 0
                              THEN inv.black - 1 ELSE inv.black,
                    gray |-> IF m.tile = "Gray" /\ inv.gray > 0
                             THEN inv.gray - 1 ELSE inv.gray]
       IN  [board |-> [b1 EXCEPT ![m.ty * BOARD_W + m.tx].tile = m.tile],
            inv_black |-> IF p = "Black" THEN inv2 ELSE s.inv_black,
            inv_white |-> IF p = "Black" THEN s.inv_white ELSE inv2]
  ELSE [board |-> b1, inv_black |-> s.inv_black, inv_white |-> s.inv_white]

\* apply_move without board_.at(m.sx, m.sy).occupant = Player::None, which C19 tells
\* from apply_move
apply_move_origin_kept(s, m) ==
  IF ~in_bounds(m.sx, m.sy) THEN s
  ELSE IF ~in_bounds(m.dx, m.dy) THEN s
  ELSE
    LET p == s.to_move
        src == m.sy * BOARD_W + m.sx
        dst == m.dy * BOARD_W + m.dx
        b1 == [s.board EXCEPT ![dst].occupant = s.board[src].occupant]
        placed == PlaceTile(s, b1, m, p)
        s1 == [board |-> placed.board, to_move |-> Opponent(s.to_move),
               inv_black |-> placed.inv_black, inv_white |-> placed.inv_white]
    IN  [board |-> s1.board, to_move |-> s1.to_move,
         inv_black |-> s1.inv_black, inv_white |-> s1.inv_white,
         history |-> HistoryIncrement(s.history, compute_hash(s1))]

\* GameState::apply_move
apply_move(s, m) ==
  IF ~in_bounds(m.sx, m.sy) THEN s
  ELSE IF ~in_bounds(m.dx, m.dy) THEN s
  ELSE
    LET p == s.to_move
        src == m.sy * BOARD_W + m.sx
        dst == m.dy * BOARD_W + m.dx
        bm == [s.board EXCEPT ![dst].occupant = s.board[src].occupant]
        b1 == [bm EXCEPT ![src].occupant = "None"]
        placed == PlaceTile(s, b1, m, p)
        s1 == [board |-> placed.board, to_move |-> Opponent(s.to_move),
               inv_black |-> placed.inv_black, inv_white |-> placed.inv_white]
    IN  [board |-> s1.board, to_move |-> s1.to_move,
         inv_black |-> s1.inv_black, inv_white |-> s1.inv_white,
         history |-> HistoryIncrement(s.history, compute_hash(s1))]

(***************************************************************************)
(* core/src/rules.cpp                                                      *)
(***************************************************************************)
kRepetitionDrawCount == 4

ORTHO == << <<1, 0>>, <<-1, 0>>, <<0, 1>>, <<0, -1>> >>
DIAG == << <<1, 1>>, <<1, -1>>, <<-1, 1>>, <<-1, -1>> >>
ALL_8 == ORTHO \o DIAG

\* variant: a Gray tile treated as a Black one
DirsFor_gray_as_black(tile) == IF tile = "None" THEN ORTHO ELSE DIAG

\* directions chosen by the tile under the piece
DirsFor(tile) ==
  IF tile = "None" THEN ORTHO ELSE IF tile = "Black" THEN DIAG ELSE ALL_8

\* the while loop that slides over the mover's own pieces
RECURSIVE JumpEnd(_, _, _, _, _, _)
JumpEnd(b, p, jx, jy, dx, dy) ==
  IF in_bounds(jx, jy) /\ at(b, jx, jy).occupant = p
  THEN JumpEnd(b, p, jx + dx, jy + dy, dx, dy)
  ELSE <<jx, jy>>

\* the body of the direction loop: zero or one base move
DirMoves(b, p, x, y, d) ==
  LET tx == x + d[1]
      ty == y + d[2]
  IN  IF ~in_bounds(tx, ty) THEN <<>>
      ELSE IF at(b, tx, ty).occupant # "None" /\ at(b, tx, ty).occupant # p THEN <<>>
      ELSE IF at(b, tx, ty).occupant = "None"
           THEN << [MoveDefault EXCEPT !.sx = x, !.sy = y, !.dx = tx, !.dy = ty] >>
           ELSE LET j == JumpEnd(b, p, tx, ty, d[1], d[2])
                IN  IF in_bounds(j[1], j[2]) /\ at(b, j[1], j[2]).occupant = "None"
                    THEN << [MoveDefault EXCEPT !.sx = x, !.sy = y,
                                                !.dx = j[1], !.dy = j[2]] >>
                    ELSE <<>>

RECURSIVE PieceMoves(_, _, _, _, _, _)
PieceMoves(b, p, x, y, dirs, i) ==
  IF i > Len(dirs) THEN <<>>
  ELSE DirMoves(b, p, x, y, dirs[i]) \o PieceMoves(b, p, x, y, dirs, i + 1)

\* the first double loop of Rules::legal_moves: base moves, in scan order
RECURSIVE BaseMovesFrom(_, _, _, _)
BaseMovesFrom(b, p, list, i) ==
  IF i >= NumCells THEN list
  ELSE IF b[i].occupant # p THEN BaseMovesFrom(b, p, list, i + 1)
  ELSE BaseMovesFrom(b, p,
         push_all(list, PieceMoves(b, p, i % BOARD_W, i \div BOARD_W,
                                   DirsFor(b[i].tile), 1), 1),
         i + 1)

base_moves(s) == BaseMovesFrom(s.board, s.to_move, <<>>, 0)

CellOrder == [k \in 1..NumCells |-> k - 1]

\* the test that takes only cells that are empty now, which C20 tells from
\* PlacementAllowed
PlacementOnEmptyNow(b, base, i) ==
  LET x == i % BOARD_W
      y == i \div BOARD_W
  IN  b[i].tile = "None" /\ b[i].occupant = "None" /\ ~(x = base.dx /\ y = base.dy)

\* tile_empty && will_be_empty && !is_destination
PlacementAllowed(b, base, i) ==
  LET x == i % BOARD_W
      y == i \div BOARD_W
      tile_empty == b[i].tile = "None"
      will_be_empty == b[i].occupant = "None" \/ (x = base.sx /\ y = base.sy)
      is_destination == x = base.dx /\ y = base.dy
  IN  tile_empty /\ will_be_empty /\ ~is_destination

\* one colour's placement loop for one base move
TileVariants(b, base, color) ==
  LET cs == SelectSeq(CellOrder, LAMBDA i : PlacementAllowed(b, base, i))
  IN  [k \in 1..Len(cs) |->
         [base EXCEPT !.place_tile = TRUE, !.tx = cs[k] % BOARD_W,
                      !.ty = cs[k] \div BOARD_W, !.tile = color]]

RECURSIVE ExpandMoves(_, _, _, _, _)
ExpandMoves(b, inv, bases, out, i) ==
  IF i > Len(bases) THEN out
  ELSE ExpandMoves(b, inv, bases,
         push_all(out,
                  <<bases[i]>>
                    \o (IF inv.black > 0 THEN TileVariants(b, bases[i], "Black") ELSE <<>>)
                    \o (IF inv.gray > 0 THEN TileVariants(b, bases[i], "Gray") ELSE <<>>),
                  1),
         i + 1)

\* Rules::legal_moves
legal_moves(s) ==
  ExpandMoves(s.board, inventory(s, s.to_move), base_moves(s), <<>>, 1)

(***************************************************************************)
(* core_c/src/rules.c, core_c/src/game_state.c : the C port.  Its GameState *)
(* has board, to_move and the two inventories and no history; its Move has *)
(* the members of the C++ Move, place_tile being an int.                   *)
(***************************************************************************)
\* the test of the two placement loops of rules_legal_moves
rules_placement_allowed(b, i) == b[i].occupant = "None" /\ b[i].tile = "None"

\* one colour's placement loop of rules_legal_moves for one base move
rules_tile_variants(b, base, color) ==
  LET cs == SelectSeq(CellOrder, LAMBDA i : rules_placement_allowed(b, i))
  IN  [k \in 1..Len(cs) |->
         [base EXCEPT !.place_tile = TRUE, !.tx = cs[k] % BOARD_W,
                      !.ty = cs[k] \div BOARD_W, !.tile = color]]

RECURSIVE rules_expand_moves(_, _, _, _, _)
rules_expand_moves(b, inv, bases, out, i) ==
  IF i > Len(bases) THEN out
  ELSE rules_expand_moves(b, inv, bases,
         push_all(out,
                  <<bases[i]>>
                    \o (IF inv.black > 0 THEN rules_tile_variants(b, bases[i], "Black")
                        ELSE <<>>)
                    \o (IF inv.gray > 0 THEN rules_tile_variants(b, bases[i], "Gray")
                        ELSE <<>>),
                  1),
         i + 1)

\* rules_legal_moves.  Its first loop (lines 19-75) is, statement for statement,
\* the first loop of Rules::legal_moves, with the same direction tables and the
\* same MAX_MOVES, so base_moves stands for it.
rules_legal_moves(s) ==
  rules_expand_moves(s.board, inventory(s, s.to_move), base_moves(s), <<>>, 1)

\* game_state_apply_move
game_state_apply_move(s, move) ==
  IF ~in_bounds(move.sx, move.sy) \/ ~in_bounds(move.dx, move.dy) THEN s
  ELSE
    LET p == s.to_move
        src == move.sy * BOARD_W + move.sx
        dst == move.dy * BOARD_W + move.dx
        bm == [s.board EXCEPT ![dst].occupant = s.board[src].occupant]
        b1 == [bm EXCEPT ![src].occupant = "None"]
        tile_cell == move.ty * BOARD_W + move.tx
        places == /\ move.place_tile /\ in_bounds(move.tx, move.ty)
                  /\ b1[tile_cell].tile = "None" /\ b1[tile_cell].occupant = "None"
        inv == inventory(s, p)
        inv2 == IF ~places THEN inv
                ELSE IF move.tile = "Black" /\ inv.black > 0
                THEN [inv EXCEPT !.black = @ - 1]
                ELSE IF move.tile = "Gray" /\ inv.gray > 0
                THEN [inv EXCEPT !.gray = @ - 1]
                ELSE inv
    IN  [s EXCEPT !.board = IF places THEN [b1 EXCEPT ![tile_cell].tile = move.tile]
                            ELSE b1,
                  !.inv_black = IF p = "Black" THEN inv2 ELSE @,
                  !.inv_white = IF p = "Black" THEN @ ELSE inv2,
                  !.to_move = IF s.to_move = "Black" THEN "White" ELSE "Black"]

\* the test that stops after the first cell of the row, which C18 tells from is_win
is_win_first_cell(s, p) ==
  LET target_row == IF p = "Black" THEN BOARD_H - 1 ELSE 0
  IN  at(s.board, 0, target_row).occupant = p

\* Rules::is_win
is_win(s, p) ==
  LET target_row == IF p = "Black" THEN BOARD_H - 1 ELSE 0
  IN  \E x \in 0..(BOARD_W - 1) : at(s.board, x, target_row).occupant = p

\* Rules::is_loss : the parameter is unused, the side to move has no move
is_loss(s, p) == legal_moves(s) = <<>>

\* variant: a draw only once the count has passed kRepetitionDrawCount
is_draw_above(s) ==
  LET h == compute_hash(s)
  IN  IF h \notin DOMAIN s.history THEN FALSE
      ELSE s.history[h] > kRepetitionDrawCount

\* Rules::is_draw
is_draw(s) ==
  LET h == compute_hash(s)
  IN  IF h \notin DOMAIN s.history THEN FALSE
      ELSE s.history[h] >= kRepetitionDrawCount

(***************************************************************************)
(* common/protocol.hpp : text is kept as sequences of characters           *)
(***************************************************************************)
FILES == <<"a", "b", "c", "d", "e">>
RANKS == <<"1", "2", "3", "4", "5">>

\* ch - 'a' and ch - '1' on the characters a parsed coordinate can hold
CharOffset(chars, ch) == (CHOOSE i \in 1..Len(chars) : chars[i] = ch) - 1

\* TilePlacement::none() : skip{true}, coord{}, color{'b'}
TilePlacement_none == [skip |-> TRUE, coord |-> <<>>, color |-> "b"]

\* protocol::format_move
format_move(move) ==
  move.origin \o <<",">> \o move.target \o <<" ">>
    \o (IF move.tile.skip THEN <<"-", "1">> ELSE move.tile.coord \o <<move.tile.color>>)

TILE_COLORS == <<"b", "g">>

UpperCase ==
  <<"A", "B", "C", "D", "E", "F", "G", "H", "I", "J", "K", "L", "M",
    "N", "O", "P", "Q", "R", "S", "T", "U", "V", "W", "X", "Y", "Z">>
LowerCase ==
  <<"a", "b", "c", "d", "e", "f", "g", "h", "i", "j", "k", "l", "m",
    "n", "o", "p", "q", "r", "s", "t", "u", "v", "w", "x", "y", "z">>

\* std::tolower on one character
tolower(ch) ==
  IF \E i \in DOMAIN UpperCase : UpperCase[i] = ch
  THEN LowerCase[CHOOSE i \in DOMAIN UpperCase : UpperCase[i] = ch]
  ELSE ch

\* protocol::to_lower
to_lower(text) == [i \in DOMAIN text |-> tolower(text[i])]

\* std::isspace in the C locale
isspace(ch) == ch \in {" ", "\t", "\n", "\r", "\f"}

\* std::find on an array of characters
Holds(chars, ch) == \E i \in DOMAIN chars : chars[i] = ch

\* protocol::is_valid_coord
is_valid_coord(coord) ==
  IF Len(coord) # 2 THEN FALSE
  ELSE Holds(FILES, coord[1]) /\ Holds(RANKS, coord[2])

\* what a function of protocol.hpp that throws ProtocolError comes to
ProtocolError == [ok |-> FALSE]

\* protocol::normalize_coord
normalize_coord(coord) ==
  LET lowered == to_lower(coord)
  IN  IF ~is_valid_coord(lowered) THEN ProtocolError
      ELSE [ok |-> TRUE, coord |-> lowered]

\* protocol::parse_tile
parse_tile(text) ==
  LET trimmed == to_lower(text)
  IN  IF trimmed = <<"-", "1">> THEN [ok |-> TRUE, tile |-> TilePlacement_none]
      ELSE IF Len(trimmed) # 3 THEN ProtocolError
      ELSE LET coord == normalize_coord(SubSeq(trimmed, 1, 2))
           IN  IF ~coord.ok THEN ProtocolError
               ELSE IF ~Holds(TILE_COLORS, trimmed[3]) THEN ProtocolError
               ELSE [ok |-> TRUE,
                     tile |-> [skip |-> FALSE, coord |-> coord.coord,
                               color |-> trimmed[3]]]

\* std::string::find(ch, from) : the first position at or after from, 0 for npos
find(text, ch, from) ==
  LET hits == {i \in from..Len(text) : text[i] = ch}
  IN  IF hits = {} THEN 0 ELSE CHOOSE i \in hits : \A j \in hits : i <= j

\* the two erase calls of parse_move : white space off both ends
trim(text) ==
  LET solid == {i \in DOMAIN text : ~isspace(text[i])}
  IN  IF solid = {} THEN <<>>
      ELSE SubSeq(text, CHOOSE i \in solid : \A j \in solid : i <= j,
                        CHOOSE i \in solid : \A j \in solid : i >= j)

\* protocol::parse_move
parse_move(text) ==
  LET trimmed == trim(text)
      space_pos == find(trimmed, " ", 1)
      displacement == SubSeq(trimmed, 1, space_pos - 1)
      tile_part == SubSeq(trimmed, space_pos + 1, Len(trimmed))
      comma_pos == find(displacement, ",", 1)
      origin == normalize_coord(SubSeq(displacement, 1, comma_pos - 1))
      target == normalize_coord(SubSeq(displacement, comma_pos + 1, Len(displacement)))
      tile == parse_tile(tile_part)
  IN  IF space_pos = 0 THEN ProtocolError
      ELSE IF comma_pos = 0 \/ find(displacement, ",", comma_pos + 1) # 0
      THEN ProtocolError
      ELSE IF ~origin.ok \/ ~target.ok \/ ~tile.ok THEN ProtocolError
      ELSE [ok |-> TRUE,
            move |-> [origin |-> origin.coord, target |-> target.coord,
                      tile |-> tile.tile]]

\* a default-constructed protocol::StateSnapshot
StateSnapshot ==
  [pieces |-> <<>>, tiles |-> <<>>, turn |-> "X", status |-> "ongoing",
   last_move |-> <<>>, stock_black |-> <<>>, stock_gray |-> <<>>, game_id |-> 0]

DIGITS == <<"0", "1", "2", "3", "4", "5", "6", "7", "8", "9">>

\* operator<< of an int that is not negative
RECURSIVE to_string(_)
to_string(n) ==
  IF n < 10 THEN <<DIGITS[n + 1]>>
  ELSE to_string(n \div 10) \o <<DIGITS[(n % 10) + 1]>>

\* std::stoi on text without sign or leading white space: the number its leading
\* digits spell, -1 where it throws because there are none
RECURSIVE stoi_from(_, _, _)
stoi_from(text, i, value) ==
  IF i > Len(text) \/ ~Holds(DIGITS, text[i]) THEN (IF i = 1 THEN -1 ELSE value)
  ELSE LET value1 == value * 10 + CharOffset(DIGITS, text[i])
       IN  IF value1 >= 0 THEN stoi_from(text, i + 1, value1) ELSE value1

stoi(text) == stoi_from(text, 1, 0)

\* the characters of a status
StatusText(status) ==
  IF status = "ongoing" THEN <<"o", "n", "g", "o", "i", "n", "g">>
  ELSE IF status = "draw" THEN <<"d", "r", "a", "w">>
  ELSE <<SubSeq(<<"X", "O", "?">>,
                CHOOSE i \in 1..3 : status = <<"X_win", "O_win", "?_win">>[i],
                CHOOSE i \in 1..3 : status = <<"X_win", "O_win", "?_win">>[i])[1]>>
         \o <<"_", "w", "i", "n">>

\* the keys of a std::map in the order its iterator visits them: rank gives the
\* place of each key in the order of the keys
RECURSIVE InOrder(_, _)
InOrder(keys, rank) ==
  IF keys = {} THEN <<>>
  ELSE LET first == CHOOSE k \in keys : \A j \in keys : rank[k] <= rank[j]
       IN  <<first>> \o InOrder(keys \ {first}, rank)

\* operator< on two coordinates, as the place of a coordinate among all of them
CoordRank == [c \in {<<FILES[i], RANKS[j]>> : i \in 1..5, j \in 1..5} |->
                CharOffset(FILES, c[1]) * 5 + CharOffset(RANKS, c[2])]

\* operator< on the players' symbols
SymbolRank == [X |-> 2, O |-> 1]

\* the items of a join, with ',' between them
RECURSIVE Joined(_)
Joined(items) ==
  IF items = <<>> THEN <<>>
  ELSE IF Len(items) = 1 THEN items[1]
  ELSE items[1] \o <<",">> \o Joined(Tail(items))

\* protocol::join_entries
join_entries(data) ==
  LET keys == InOrder(DOMAIN data, CoordRank)
  IN  Joined([i \in DOMAIN keys |-> keys[i] \o <<":", data[keys[i]]>>])

\* protocol::join_counts
join_counts(data) ==
  LET keys == InOrder(DOMAIN data, SymbolRank)
  IN  Joined([i \in DOMAIN keys |-> <<keys[i], ":">> \o to_string(data[keys[i]])])

\* "key=" << value << "\n"
KeyLine(key, value) == key \o <<"=">> \o value \o <<"\n">>

\* protocol::build_state_message
build_state_message(snapshot) ==
  <<"S", "T", "A", "T", "E", "\n">>
    \o KeyLine(<<"t", "u", "r", "n">>, <<snapshot.turn>>)
    \o KeyLine(<<"s", "t", "a", "t", "u", "s">>, StatusText(snapshot.status))
    \o KeyLine(<<"l", "a", "s", "t">>, snapshot.last_move)
    \o KeyLine(<<"p", "i", "e", "c", "e", "s">>, join_entries(snapshot.pieces))
    \o KeyLine(<<"t", "i", "l", "e", "s">>, join_entries(snapshot.tiles))
    \o KeyLine(<<"s", "t", "o", "c", "k", "_", "b">>, join_counts(snapshot.stock_black))
    \o KeyLine(<<"s", "t", "o", "c", "k", "_", "g">>, join_counts(snapshot.stock_gray))
    \o <<"E", "N", "D", "\n">>

\* the stretches of text between the occurrences of delim, the one after the last
\* occurrence included
Pieces(text, delim) ==
  LET at_delim == {i \in DOMAIN text : text[i] = delim} \cup {Len(text) + 1}
      nth(k) == CHOOSE p \in at_delim : Cardinality({q \in at_delim : q <= p}) = k
  IN  [k \in 1..Cardinality(at_delim) |->
         SubSeq(text, (IF k = 1 THEN 0 ELSE nth(k - 1)) + 1, nth(k) - 1)]

NotEmpty(item) == item # <<>>

\* protocol::split : the pieces of text between delim, the empty ones left out
split(text, delim) == SelectSeq(Pieces(text, delim), NotEmpty)

\* protocol::parse_entries : emplace keeps the first value of a coordinate
RECURSIVE parse_entries_from(_, _, _)
parse_entries_from(items, i, data) ==
  IF i > Len(items) THEN [ok |-> TRUE, data |-> data]
  ELSE LET item == items[i]
           colon == find(item, ":", 1)
           coord == normalize_coord(SubSeq(item, 1, colon - 1))
       IN  IF colon = 0 \/ colon = Len(item) THEN ProtocolError
           ELSE IF ~coord.ok THEN ProtocolError
           ELSE LET data1 == data @@ (coord.coord :> item[colon + 1])
                IN  IF DOMAIN data1 # {} THEN parse_entries_from(items, i + 1, data1)
                    ELSE ProtocolError

parse_entries(text) ==
  IF text = <<>> THEN [ok |-> TRUE, data |-> <<>>]
  ELSE parse_entries_from(split(text, ","), 1, <<>>)

\* protocol::parse_counts : data[player] = value keeps the last value of a player
RECURSIVE parse_counts_from(_, _, _)
parse_counts_from(items, i, data) ==
  IF i > Len(items) THEN [ok |-> TRUE, data |-> data]
  ELSE LET item == items[i]
           colon == find(item, ":", 1)
           value == stoi(SubSeq(item, colon + 1, Len(item)))
       IN  IF colon = 0 \/ colon = Len(item) THEN ProtocolError
           ELSE IF value < 0 THEN ProtocolError
           ELSE LET data1 == (item[1] :> value) @@ data
                IN  IF DOMAIN data1 # {} THEN parse_counts_from(items, i + 1, data1)
                    ELSE ProtocolError

parse_counts(text) ==
  IF text = <<>> THEN [ok |-> TRUE, data |-> <<>>]
  ELSE parse_counts_from(split(text, ","), 1, <<>>)

\* protocol::parse_state_block : a line without '=' and an unknown key are passed
\* over; ok is FALSE where parse_entries or parse_counts throws
RECURSIVE parse_state_block_from(_, _, _)
parse_state_block_from(lines, i, snapshot) ==
  IF i > Len(lines) THEN [ok |-> TRUE, snapshot |-> snapshot]
  ELSE LET line == lines[i]
           eq == find(line, "=", 1)
           key == SubSeq(line, 1, eq - 1)
           value == SubSeq(line, eq + 1, Len(line))
           entries == parse_entries(value)
           counts == parse_counts(value)
           next(snapshot1) ==
             IF snapshot1.turn = snapshot1.turn
             THEN parse_state_block_from(lines, i + 1, snapshot1)
             ELSE ProtocolError
       IN  IF eq = 0 THEN next(snapshot)
           ELSE IF key = <<"t", "u", "r", "n">> /\ value # <<>>
           THEN next([snapshot EXCEPT !.turn = value[1]])
           ELSE IF key = <<"s", "t", "a", "t", "u", "s">>
           THEN next([snapshot EXCEPT !.status = value])
           ELSE IF key = <<"l", "a", "s", "t">>
           THEN next([snapshot EXCEPT !.last_move = value])
           ELSE IF key = <<"p", "i", "e", "c", "e", "s">>
           THEN IF entries.ok THEN next([snapshot EXCEPT !.pieces = entries.data])
                ELSE ProtocolError
           ELSE IF key = <<"t", "i", "l", "e", "s">>
           THEN IF entries.ok THEN next([snapshot EXCEPT !.tiles = entries.data])
                ELSE ProtocolError
           ELSE IF key = <<"s", "t", "o", "c", "k", "_", "b">>
           THEN IF counts.ok THEN next([snapshot EXCEPT !.stock_black = counts.data])
                ELSE ProtocolError
           ELSE IF key = <<"s", "t", "o", "c", "k", "_", "g">>
           THEN IF counts.ok THEN next([snapshot EXCEPT !.stock_gray = counts.data])
                ELSE ProtocolError
           ELSE next(snapshot)

parse_state_block(lines) ==
  parse_state_block_from(lines, 1, [StateSnapshot EXCEPT !.status = StatusText(@)])

(***************************************************************************)
(* client/main.cpp : the receiving end of a STATE block                    *)
(***************************************************************************)
\* recv_line over a whole message: the text before each '\n', empty lines kept, and
\* what is left at the end if it is not empty
recv_lines(buffer) ==
  LET pieces == Pieces(buffer, "\n")
  IN  IF pieces[Len(pieces)] = <<>> THEN SubSeq(pieces, 1, Len(pieces) - 1) ELSE pieces

\* the block the receive loop collects: the lines after the line STATE, up to the
\* line END; none if the message does not begin with STATE or has no END
state_block(message) ==
  LET lines == recv_lines(message)
      ends == {i \in 2..Len(lines) : lines[i] = <<"E", "N", "D">>}
  IN  IF lines = <<>> \/ lines[1] # <<"S", "T", "A", "T", "E">> \/ ends = {}
      THEN <<>>
      ELSE SubSeq(lines, 2, (CHOOSE i \in ends : \A j \in ends : i <= j) - 1)

(***************************************************************************)
(* server/main.cpp : conversions                                           *)
(***************************************************************************)
player_to_symbol(player) ==
  IF player = "Black" THEN "X" ELSE IF player = "White" THEN "O" ELSE "?"

role_to_player(role) ==
  IF role = "X" THEN "Black" ELSE IF role = "O" THEN "White" ELSE "None"

coord_to_xy(coord) ==
  LET x == CharOffset(FILES, coord[1])
      rank_index == CharOffset(RANKS, coord[2])
  IN  <<x, BOARD_H - 1 - rank_index>>

\* the variant of xy_to_coord that counts ranks from the top row, y + 1
xy_to_coord_from_top(x, y) == <<FILES[x + 1], RANKS[y + 1]>>

xy_to_coord(x, y) == <<FILES[x + 1], RANKS[(BOARD_H - 1 - y) + 1]>>

tile_from_char(color) ==
  IF color = "b" THEN "Black" ELSE IF color = "g" THEN "Gray" ELSE "None"

tile_to_char(tile) ==
  IF tile = "Black" THEN "b" ELSE IF tile = "Gray" THEN "g" ELSE "-"

convert_move(move) ==
  LET s == coord_to_xy(move.origin)
      d == coord_to_xy(move.target)
      core == [MoveDefault EXCEPT !.sx = s[1], !.sy = s[2], !.dx = d[1], !.dy = d[2]]
  IN  IF ~move.tile.skip
      THEN LET t == coord_to_xy(move.tile.coord)
           IN  [core EXCEPT !.place_tile = TRUE, !.tx = t[1], !.ty = t[2],
                            !.tile = tile_from_char(move.tile.color)]
      ELSE core

\* the comparison without its tile part, which C6 tells from moves_equal
moves_equal_base(a, b) == a.sx = b.sx /\ a.sy = b.sy /\ a.dx = b.dx /\ a.dy = b.dy

\* moves_equal
moves_equal(a, b) ==
  IF a.sx # b.sx \/ a.sy # b.sy \/ a.dx # b.dx \/ a.dy # b.dy THEN FALSE
  ELSE IF a.place_tile # b.place_tile THEN FALSE
  ELSE IF ~a.place_tile THEN TRUE
  ELSE a.tx = b.tx /\ a.ty = b.ty /\ a.tile = b.tile

\* a std::map filled by assignment from a set of (key, value) entries with distinct keys
MapOf(entries) ==
  [k \in {e[1] : e \in entries} |-> (CHOOSE e \in entries : e[1] = k)[2]]

\* build_snapshot, on the globals it reads
build_snapshot(st, status, last_move, game_id) ==
  LET cells == 0..(NumCells - 1)
      coord(i) == xy_to_coord(i % BOARD_W, i \div BOARD_W)
  IN  [pieces |-> MapOf({<<coord(i), player_to_symbol(st.board[i].occupant)>> :
                           i \in {j \in cells : st.board[j].occupant # "None"}}),
       tiles |-> MapOf({<<coord(i), tile_to_char(st.board[i].tile)>> :
                          i \in {j \in cells : st.board[j].tile # "None"}}),
       turn |-> player_to_symbol(st.to_move),
       status |-> status,
       last_move |-> last_move,
       stock_black |-> [X |-> st.inv_black.black, O |-> st.inv_white.black],
       stock_gray |-> [X |-> st.inv_black.gray, O |-> st.inv_white.gray],
       game_id |-> game_id]

\* std::string(1, player_to_symbol(last_player)) + "_win"
WinStatus(symbol) ==
  IF symbol = "X" THEN "X_win" ELSE IF symbol = "O" THEN "O_win" ELSE "?_win"

\* update_status : the status after last_player moved
update_status(st, last_player) ==
  IF is_win(st, last_player) THEN WinStatus(player_to_symbol(last_player))
  ELSE IF is_loss(st, Opponent(last_player))
       THEN WinStatus(player_to_symbol(last_player))
  ELSE IF is_draw(st) THEN "draw"
  ELSE "ongoing"

(***************************************************************************)
(* Bounds of the model and the commands the clients send                   *)
(***************************************************************************)
Sessions == {1, 2}

MatchMoves == 8     \* MOVE commands of the clients that play a whole game
MatchReady == 1     \* READY commands of those clients
RepeatMoves == 3    \* MOVE commands of the clients that repeat or misplace a move
RepeatRejects == 1  \* how many of these may be unacceptable when they are sent
ResyncMoves == 2    \* MOVE commands of the clients that start a second game first
ResyncRejects == 1  \* how many of these may be unacceptable when they are sent
ResyncReady == 2    \* READY commands of those clients
ResyncPlies == 1    \* how far into the line their moves reach
LeaveMoves == 2     \* MOVE commands of the clients that disconnect
LeaveReady == 1     \* READY commands of those clients
LeaveEof == 2       \* how many of them disconnect
MaxMoveId == 1      \* move ids the clients attach
SwitchRoles == 3    \* ROLE commands of the clients that change roles
SwitchEof == 1      \* how many of them disconnect
BreakMoves == 2     \* MOVE commands of the clients whose connections break
BreakRejects == 1   \* how many of these may be unacceptable when they are sent
BreakPeers == 1     \* how many connections break

Coord(file, rank) == <<file, rank>>

ProtoMove(origin, target, tile) ==
  [origin |-> origin, target |-> target, tile |-> tile, game_id |-> 0, move_id |-> 0]

TileAt(coord, color) == [skip |-> FALSE, coord |-> coord, color |-> color]

\* the MOVE payloads the clients choose from (before the optional id pair): a game
\* in which Black walks down the c file and enters c1 from c2, that is from
\* (2,3) to (2,4), with its fourth move, and White then enters c5
Line ==
  << ProtoMove(Coord("c", "5"), Coord("c", "4"), TileAt(Coord("c", "2"), "g")),
     ProtoMove(Coord("c", "1"), Coord("c", "2"), TileAt(Coord("b", "4"), "b")),
     ProtoMove(Coord("c", "4"), Coord("c", "3"), TilePlacement_none),
     ProtoMove(Coord("c", "2"), Coord("b", "3"), TilePlacement_none),
     ProtoMove(Coord("c", "3"), Coord("c", "2"), TilePlacement_none),
     ProtoMove(Coord("b", "3"), Coord("b", "4"), TilePlacement_none),
     ProtoMove(Coord("c", "2"), Coord("c", "1"), TilePlacement_none),
     ProtoMove(Coord("b", "4"), Coord("c", "5"), TilePlacement_none) >>

InputMoves(plies) == {Line[i] : i \in {j \in 1..Len(Line) : j <= plies}}

\* the optional "[game_id move_id]" pair: absent, or the current or the previous game id
InputIds(ids, current) ==
  {<<0, 0>>} \cup (IF ids THEN ({current, current - 1} \ {0}) \X (1..MaxMoveId) ELSE {})

\* ROLE payloads: the role token and whether the "multi" token is present
InputRoles == {<<"-", TRUE>>, <<"x", FALSE>>, <<"O", FALSE>>, <<"spec", FALSE>>}

\* what the clients of one run send: how many MOVE commands, how many of them
\* unacceptable at the moment they are sent, which sessions begin with a ROLE
\* command, how many READY commands, how many disconnects, how much of the line
\* they know and whether they attach the id pair.  READY is sent before the
\* first MOVE of the run (opening) or once a game has ended.  `switch` counts
\* the ROLE commands that name a role, `breaks` the connections that may still
\* break, and `down` holds the sessions whose connection has broken: every send
\* to them fails, they send nothing more and their worker reads end of input.
Clients(moves, rejects, role, ready, eof, plies, ids) ==
  [moves |-> moves, rejects |-> rejects, role |-> role, ready |-> ready, eof |-> eof,
   plies |-> plies, ids |-> ids, opening |-> TRUE, switch |-> 0,
   breaks |-> 0, down |-> {}]

Scenarios ==
  { Clients(MatchMoves, 0, Sessions, MatchReady, 0, MatchMoves, FALSE),
    Clients(RepeatMoves, RepeatRejects, {}, 0, 0, RepeatMoves, TRUE),
    Clients(ResyncMoves, ResyncRejects, {}, ResyncReady, 0, ResyncPlies, TRUE),
    Clients(LeaveMoves, 0, {}, LeaveReady, LeaveEof, LeaveMoves, TRUE),
    [Clients(0, 0, {}, 0, SwitchEof, 0, FALSE) EXCEPT !.switch = SwitchRoles],
    [Clients(BreakMoves, BreakRejects, {}, 0, 0, BreakMoves, FALSE)
       EXCEPT !.breaks = BreakPeers] }

(***************************************************************************)
(* server/main.cpp : state                                                 *)
(***************************************************************************)
VARIABLES
  g_state,                  \* contrast::GameState g_state
  g_last_move,              \* std::string g_last_move
  g_status,                 \* std::string g_status
  g_game_id,                \* uint64_t g_game_id
  g_last_received_move_id,  \* std::map<std::string, uint64_t>
  g_stats,                  \* GameStats g_stats (counters)
  g_clients,                \* std::vector<std::shared_ptr<ClientSession>>
  session,                  \* ClientSession fields of every session
  pc,                       \* where each session's worker thread stands
  local,                    \* the locals of the handler a worker is in
  sent,                     \* what the last step wrote to each session's socket
  nApplied,                 \* history: moves accepted so far
  budget,                   \* the commands the clients have yet to send
  last_accept,              \* history: per role, the last accepted MOVE and its snapshot
  viewSeq,                  \* history: per session, which accepted move's snapshot it got last
  last_op,                  \* history: the step taken last
  g_game_mutex,             \* std::mutex g_game_mutex: the thread that holds it, or Nobody
  g_clients_mutex,          \* std::mutex g_clients_mutex: the thread that holds it, or Nobody
  thread,                   \* per thread, the lock and send operations its handler has yet to do
  played,                   \* history: the hash of every position of the game in play, oldest first
  engine                    \* ai/: what the search, evaluation or conversion run last has produced

gameVars == <<g_state, g_last_move, g_status, g_game_id, g_last_received_move_id>>

\* the mutexes are spelled out in the second part of the module; in the steps of
\* the first part, which are whole critical sections, every mutex is free before
\* and after
lockVars == <<g_game_mutex, g_clients_mutex, thread>>

serverVars == <<g_state, g_last_move, g_status, g_game_id, g_last_received_move_id, g_stats,
                g_clients, session, pc, local, sent, nApplied, last_accept, viewSeq, last_op>>

vars == <<g_state, g_last_move, g_status, g_game_id, g_last_received_move_id, g_stats,
          g_clients, session, pc, local, sent, nApplied, budget,
          last_accept, viewSeq, last_op, g_game_mutex, g_clients_mutex, thread,
          played, engine>>

\* the third part of the module runs core/ and ai/ without the server
aiVars == <<played, engine>>

\* the acceptor thread; the worker of session s is thread s
Acceptor == 0
Threads == Sessions \cup {Acceptor}
Nobody == -1

\* struct ClientSession : role{"spectator"}, active{true}, ready{false}, multi_game{false}
ClientSession ==
  [role |-> "spectator", active |-> TRUE, ready |-> FALSE, multi_game |-> FALSE]

NoMove == ProtoMove(<<>>, <<>>, TilePlacement_none)

NoLocal == [move |-> NoMove, snapshot |-> StateSnapshot, game_ended |-> FALSE, seq |-> 0]

\* nothing of ai/ has run
NoRun == [run |-> "none"]

NoneSent == [s \in Sessions |-> <<>>]

Op(name, s) == [op |-> name, by |-> s, ready_before |-> {}]

\* the server after its globals are constructed, with the clients that will talk to it
Start(clients) ==
  /\ g_state = GameState_reset
  /\ g_last_move = <<>>
  /\ g_status = "ongoing"
  /\ g_game_id = 1
  /\ g_last_received_move_id = [X |-> 0, O |-> 0]
  /\ g_stats = [total_games |-> 0, x_wins |-> 0, o_wins |-> 0, draws |-> 0]
  /\ g_clients = <<>>
  /\ session = [s \in Sessions |-> ClientSession]
  /\ pc = [s \in Sessions |-> "unborn"]
  /\ local = [s \in Sessions |-> NoLocal]
  /\ sent = NoneSent
  /\ nApplied = 0
  /\ budget = clients
  /\ last_accept = [X |-> NoLocal, O |-> NoLocal]
  /\ viewSeq = [s \in Sessions |-> 0]
  /\ last_op = Op("Init", 0)
  /\ g_game_mutex = Nobody
  /\ g_clients_mutex = Nobody
  /\ thread = [t \in Threads |-> <<>>]
  /\ played = <<compute_hash(GameState_reset)>>
  /\ engine = NoRun

Init == \E clients \in Scenarios : Start(clients)

(***************************************************************************)
(* server/main.cpp : helpers over the registry                             *)
(***************************************************************************)
Symbol(role) == player_to_symbol(role_to_player(role))

\* positions in g_clients of the active sessions holding `role`
Holders(clients, sess, role) ==
  {i \in 1..Len(clients) : sess[clients[i]].active /\ sess[clients[i]].role = role}

MaxOf(S) == CHOOSE m \in S : \A k \in S : k <= m

\* the flag a scan of g_clients leaves for `role` (the last holder wins, false if none)
ScannedFlag(clients, sess, role, field) ==
  LET hs == Holders(clients, sess, role)
  IN  IF hs = {} THEN FALSE ELSE sess[clients[MaxOf(hs)]][field]

all_players_ready(clients, sess) ==
  /\ Holders(clients, sess, "X") # {}
  /\ Holders(clients, sess, "O") # {}
  /\ ScannedFlag(clients, sess, "X", "ready")
  /\ ScannedFlag(clients, sess, "O", "ready")

both_players_multi_game(clients, sess) ==
  ScannedFlag(clients, sess, "X", "multi_game")
    /\ ScannedFlag(clients, sess, "O", "multi_game")

assign_role_locked(clients, sess) ==
  IF Holders(clients, sess, "X") = {} THEN "X"
  ELSE IF Holders(clients, sess, "O") = {} THEN "O"
  ELSE "spectator"

\* the test that looks after X alone, which C12 tells from role_in_use_locked
role_in_use_x_only(clients, sess, role, requester) ==
  IF role # "X" THEN FALSE
  ELSE \E i \in 1..Len(clients) :
         /\ sess[clients[i]].active
         /\ clients[i] # requester
         /\ sess[clients[i]].role = role

role_in_use_locked(clients, sess, role, requester) ==
  IF role # "X" /\ role # "O" THEN FALSE
  ELSE \E i \in 1..Len(clients) :
         /\ sess[clients[i]].active
         /\ clients[i] # requester
         /\ sess[clients[i]].role = role

\* remove_client
remove_client(clients, s) == SelectSeq(clients, LAMBDA c : c # s)

ErrorMsg(text) == [type |-> "ERROR", text |-> text]
InfoMsg(text) == [type |-> "INFO", text |-> text]
StateMsg(snapshot) == [type |-> "STATE", snapshot |-> snapshot]

\* broadcast_state : the active sessions of the registry, to which it sends
BroadcastTargets(clients, sess) ==
  {clients[i] : i \in {j \in 1..Len(clients) : sess[clients[j]].active}}

\* broadcast_state : the sessions whose send_all returns
BroadcastReceivers(clients, sess, down) == BroadcastTargets(clients, sess) \ down

\* a catch block that leaves the session as it is, which C16 tells from broadcast_sessions
broadcast_sessions_kept(clients, sess, down) == sess

\* broadcast_state : catch (...) { session->active = false; ::close(session->socket); }
broadcast_sessions(clients, sess, down) ==
  [t \in Sessions |->
     IF t \in BroadcastTargets(clients, sess) /\ t \in down
     THEN [sess[t] EXCEPT !.active = FALSE] ELSE sess[t]]

\* broadcast_state : g_clients after the erase of the inactive and the failed sessions
BroadcastRegistry(clients, sess, down) ==
  SelectSeq(clients, LAMBDA c : sess[c].active /\ c \notin down)

\* what one step writes: `first` to session s alone, then a broadcast of `snapshot`
SentBy(s, first, clients, sess, snapshot, down) ==
  [t \in Sessions |->
     (IF t = s THEN first ELSE <<>>)
       \o (IF t \in BroadcastReceivers(clients, sess, down)
           THEN <<StateMsg(snapshot)>> ELSE <<>>)]

\* a send to the worker's own session throws: client_thread leaves its loop with
\* session->active = false; ::close(session->socket)
Thrown(s) ==
  /\ sent' = NoneSent
  /\ session' = [session EXCEPT ![s].active = FALSE]
  /\ pc' = [pc EXCEPT ![s] = "closed"]
  /\ UNCHANGED g_clients

SentTo(s, msgs) == [t \in Sessions |-> IF t = s THEN msgs ELSE <<>>]

\* reset_game without its ++g_game_id, which C9 tells from reset_game_id
reset_game_id_same(game_id) == game_id

\* ++g_game_id in reset_game
reset_game_id(game_id) == game_id + 1

\* reset_game without its loop over g_clients, which C10 tells from reset_ready
reset_ready_kept(clients, sess) == sess

\* the loop of reset_game over g_clients: client->ready = false
reset_ready(clients, sess) ==
  [t \in Sessions |->
     IF \E i \in 1..Len(clients) : clients[i] = t
     THEN [sess[t] EXCEPT !.ready = FALSE] ELSE sess[t]]

\* record_game_result : the counters
record_game_result(stats, winner) ==
  [stats EXCEPT !.total_games = @ + 1,
                !.x_wins = IF winner = "X" THEN @ + 1 ELSE @,
                !.o_wins = IF winner = "O" THEN @ + 1 ELSE @,
                !.draws = IF winner # "X" /\ winner # "O" THEN @ + 1 ELSE @]

\* the comparison with > in place of !=, which C1 tells from stale_game_id
stale_game_id_newer(move, game_id) == move.game_id # 0 /\ move.game_id > game_id

\* handle_move: move.game_id != 0 && move.game_id != g_game_id
stale_game_id(move, game_id) == move.game_id # 0 /\ move.game_id # game_id

\* the comparison with < in place of <=, which C4 tells from duplicate_move_id
duplicate_move_id_strict(move, last) == move.move_id # 0 /\ move.move_id < last

\* handle_move: move.move_id != 0 and move.move_id <= last
duplicate_move_id(move, last) == move.move_id # 0 /\ move.move_id <= last

\* a search that settles for the first legal move, which C5 tells from find_legal
find_legal_any(legal, desired) == IF Len(legal) > 0 THEN 1 ELSE 0

\* std::find_if(legal.begin(), legal.end(), moves_equal(candidate, desired)) : 0 is end()
find_legal(legal, desired) ==
  LET hits == {k \in 1..Len(legal) : moves_equal(legal[k], desired)}
  IN  IF hits = {} THEN 0 ELSE CHOOSE k \in hits : \A j \in hits : k <= j

\* the best-effort reason handle_move gives for an illegal move
IllegalReason(st, player, desired) ==
  LET board == st.board
      occSrc == at(board, desired.sx, desired.sy).occupant
      occDst == at(board, desired.dx, desired.dy).occupant
      inv == inventory(st, player)
      fallback == <<"Move not present in generated legal moves">>
  IN  IF ~in_bounds(desired.sx, desired.sy) \/ ~in_bounds(desired.dx, desired.dy)
      THEN <<"Origin or target coordinate out of bounds">>
      ELSE IF occSrc # player
      THEN <<"Origin does not contain player's piece (has ",
             IF occSrc = "None" THEN "none" ELSE player_to_symbol(occSrc), ")">>
      ELSE IF occDst # "None"
      THEN <<"Destination occupied by ", player_to_symbol(occDst)>>
      ELSE IF desired.place_tile
      THEN IF ~in_bounds(desired.tx, desired.ty)
           THEN <<"Tile placement coordinate out of bounds">>
           ELSE IF at(board, desired.tx, desired.ty).tile # "None"
           THEN <<"Tile target ">> \o xy_to_coord(desired.tx, desired.ty)
                  \o <<" already has a tile">>
           ELSE IF desired.tile = "Black" /\ inv.black <= 0
           THEN <<"No black tiles available in inventory">>
           ELSE IF desired.tile = "Gray" /\ inv.gray <= 0
           THEN <<"No gray tiles available in inventory">>
           ELSE fallback
      ELSE fallback

StaleError == ErrorMsg(<<"Stale or mismatched game_id; resyncing state">>)
DuplicateError == ErrorMsg(<<"Duplicate or old move_id; resyncing state">>)
TurnError(player) == ErrorMsg(<<"It is ", player_to_symbol(player), "'s turn">>)
IllegalError(reason) == ErrorMsg(<<"Illegal move: ">> \o reason \o <<"; resyncing state">>)

\* how the second critical section of handle_move ends for a move of `role`
MoveOutcome(role, move, legal) ==
  IF role_to_player(role) # g_state.to_move THEN "turn"
  ELSE IF duplicate_move_id(move, g_last_received_move_id[role]) THEN "duplicate"
  ELSE IF find_legal(legal, convert_move(move)) = 0 THEN "illegal"
  ELSE "accept"

(***************************************************************************)
(* server/main.cpp : accept_loop                                           *)
(***************************************************************************)
Accept(s) ==
  /\ pc[s] = "unborn"
  /\ \A t \in Sessions : t < s => pc[t] # "unborn"
  /\ session' = [session EXCEPT ![s].role = assign_role_locked(g_clients, session)]
  /\ g_clients' = Append(g_clients, s)
  /\ pc' = [pc EXCEPT ![s] = "recv"]
  /\ sent' = NoneSent
  /\ last_op' = Op("Accept", s)
  /\ UNCHANGED <<lockVars, aiVars>>
  /\ UNCHANGED <<gameVars, g_stats, local, nApplied, budget,
                 last_accept, viewSeq>>

(***************************************************************************)
(* server/main.cpp : handle_move                                           *)
(***************************************************************************)
\* a MOVE line is read; spectators are turned away; the first critical section
\* compares the game id
RecvMove(s) ==
  /\ pc[s] = "recv"
  /\ s \notin budget.role
  /\ s \notin budget.down
  /\ budget.moves > 0
  /\ LET legal == legal_moves(g_state)
     IN  \E m \in InputMoves(budget.plies) : \E ids \in InputIds(budget.ids, g_game_id) :
           LET move == [m EXCEPT !.game_id = ids[1], !.move_id = ids[2]]
               acceptable == /\ session[s].role \in {"X", "O"}
                             /\ ~stale_game_id(move, g_game_id)
                             /\ MoveOutcome(session[s].role, move, legal) = "accept"
           IN  /\ budget.rejects > 0 \/ acceptable
               /\ budget' = [budget EXCEPT !.moves = @ - 1, !.opening = FALSE,
                                           !.rejects = IF acceptable THEN @ ELSE @ - 1]
               /\ IF session[s].role # "O" /\ session[s].role # "X"
                  THEN /\ sent' = SentTo(s, <<ErrorMsg(<<"Spectators cannot submit moves">>)>>)
                       /\ UNCHANGED <<pc, local>>
                  ELSE IF stale_game_id(move, g_game_id)
                  THEN /\ local' = [local EXCEPT ![s] =
                                      [NoLocal EXCEPT !.move = move,
                                         !.snapshot = build_snapshot(g_state, g_status,
                                                                     g_last_move, g_game_id)]]
                       /\ pc' = [pc EXCEPT ![s] = "stale"]
                       /\ sent' = NoneSent
                  ELSE /\ local' = [local EXCEPT ![s] = [NoLocal EXCEPT !.move = move]]
                       /\ pc' = [pc EXCEPT ![s] = "move_main"]
                       /\ sent' = NoneSent
  /\ last_op' = Op("RecvMove", s)
  /\ UNCHANGED <<lockVars, aiVars>>
  /\ UNCHANGED <<gameVars, g_stats, g_clients, session, nApplied, last_accept, viewSeq>>

\* cur_snapshot.game_id != 0 : ERROR to the sender, then the snapshot to everybody
StaleResync(s) ==
  /\ pc[s] = "stale"
  /\ IF s \in budget.down
     THEN Thrown(s)
     ELSE /\ sent' = SentBy(s, <<StaleError>>, g_clients, session, local[s].snapshot,
                            budget.down)
          /\ session' = broadcast_sessions(g_clients, session, budget.down)
          /\ g_clients' = BroadcastRegistry(g_clients, session, budget.down)
          /\ pc' = [pc EXCEPT ![s] = "recv"]
  /\ local' = [local EXCEPT ![s] = NoLocal]
  /\ last_op' = Op("StaleResync", s)
  /\ UNCHANGED <<lockVars, aiVars>>
  /\ UNCHANGED <<gameVars, g_stats, nApplied, budget, last_accept, viewSeq>>

\* player != g_state.current_player()
MoveWrongTurn(s) ==
  /\ pc[s] = "move_main"
  /\ MoveOutcome(session[s].role, local[s].move, legal_moves(g_state)) = "turn"
  /\ IF s \in budget.down
     THEN Thrown(s)
     ELSE /\ sent' = SentTo(s, <<TurnError(g_state.to_move)>>)
          /\ pc' = [pc EXCEPT ![s] = "recv"]
          /\ UNCHANGED <<g_clients, session>>
  /\ local' = [local EXCEPT ![s] = NoLocal]
  /\ last_op' = Op("MoveWrongTurn", s)
  /\ UNCHANGED <<lockVars, aiVars>>
  /\ UNCHANGED <<gameVars, g_stats, nApplied, budget, last_accept, viewSeq>>

\* move.move_id <= last
MoveDuplicate(s) ==
  /\ pc[s] = "move_main"
  /\ MoveOutcome(session[s].role, local[s].move, legal_moves(g_state)) = "duplicate"
  /\ IF s \in budget.down
     THEN Thrown(s)
     ELSE /\ sent' = SentBy(s, <<DuplicateError>>, g_clients, session,
                            build_snapshot(g_state, g_status, g_last_move, g_game_id),
                            budget.down)
          /\ session' = broadcast_sessions(g_clients, session, budget.down)
          /\ g_clients' = BroadcastRegistry(g_clients, session, budget.down)
          /\ pc' = [pc EXCEPT ![s] = "recv"]
  /\ local' = [local EXCEPT ![s] = NoLocal]
  /\ last_op' = Op("MoveDuplicate", s)
  /\ UNCHANGED <<lockVars, aiVars>>
  /\ UNCHANGED <<gameVars, g_stats, nApplied, budget, last_accept, viewSeq>>

\* it == legal.end()
MoveIllegal(s) ==
  /\ pc[s] = "move_main"
  /\ MoveOutcome(session[s].role, local[s].move, legal_moves(g_state)) = "illegal"
  /\ IF s \in budget.down
     THEN Thrown(s)
     ELSE /\ sent' = SentBy(s,
                            <<IllegalError(IllegalReason(g_state,
                                                         role_to_player(session[s].role),
                                                         convert_move(local[s].move)))>>,
                            g_clients, session,
                            build_snapshot(g_state, g_status, g_last_move, g_game_id),
                            budget.down)
          /\ session' = broadcast_sessions(g_clients, session, budget.down)
          /\ g_clients' = BroadcastRegistry(g_clients, session, budget.down)
          /\ pc' = [pc EXCEPT ![s] = "recv"]
  /\ local' = [local EXCEPT ![s] = NoLocal]
  /\ last_op' = Op("MoveIllegal", s)
  /\ UNCHANGED <<lockVars, aiVars>>
  /\ UNCHANGED <<gameVars, g_stats, nApplied, budget, last_accept, viewSeq>>

\* the move is applied and the snapshot built, all under g_game_mutex
MoveAccept(s) ==
  /\ pc[s] = "move_main"
  /\ LET role == session[s].role
         move == local[s].move
         legal == legal_moves(g_state)
         it == find_legal(legal, convert_move(move))
         st == apply_move(g_state, legal[it])
         status == update_status(st, role_to_player(role))
         last_move == format_move(move)
         snapshot == build_snapshot(st, status, last_move, g_game_id)
         winner == IF status = "X_win" THEN "X"
                   ELSE IF status = "O_win" THEN "O"
                   ELSE IF status = "draw" THEN "Draw" ELSE ""
     IN  /\ MoveOutcome(role, move, legal) = "accept"
         /\ g_state' = st
         /\ g_last_move' = last_move
         /\ g_last_received_move_id' =
              IF move.move_id # 0
              THEN [g_last_received_move_id EXCEPT ![role] = move.move_id]
              ELSE g_last_received_move_id
         /\ g_status' = status
         /\ g_stats' = IF status # "ongoing" /\ winner # ""
                       THEN record_game_result(g_stats, winner) ELSE g_stats
         /\ local' = [local EXCEPT ![s] =
                        [move |-> move, snapshot |-> snapshot,
                         game_ended |-> (status # "ongoing"), seq |-> nApplied + 1]]
         /\ last_accept' = [last_accept EXCEPT ![role] =
                              [move |-> move, snapshot |-> snapshot,
                               game_ended |-> (status # "ongoing"),
                               seq |-> nApplied + 1]]
  /\ nApplied' = nApplied + 1
  /\ pc' = [pc EXCEPT ![s] = "move_bcast"]
  /\ sent' = NoneSent
  /\ last_op' = Op("MoveAccept", s)
  /\ UNCHANGED <<lockVars, aiVars>>
  /\ UNCHANGED <<g_game_id, g_clients, session, budget, viewSeq>>

\* broadcast_state(snapshot), after g_game_mutex was released
MoveBroadcast(s) ==
  /\ pc[s] = "move_bcast"
  /\ sent' = SentBy(s, <<>>, g_clients, session, local[s].snapshot, budget.down)
  /\ viewSeq' = [t \in Sessions |->
                   IF t \in BroadcastReceivers(g_clients, session, budget.down)
                   THEN local[s].seq ELSE viewSeq[t]]
  /\ session' = broadcast_sessions(g_clients, session, budget.down)
  /\ g_clients' = BroadcastRegistry(g_clients, session, budget.down)
  /\ pc' = [pc EXCEPT ![s] = IF local[s].game_ended THEN "multi_check" ELSE "recv"]
  /\ local' = [local EXCEPT ![s] = IF local[s].game_ended THEN @ ELSE NoLocal]
  /\ last_op' = Op("MoveBroadcast", s)
  /\ UNCHANGED <<lockVars, aiVars>>
  /\ UNCHANGED <<gameVars, g_stats, nApplied, budget, last_accept>>

\* game_ended && both_players_multi_game()
MultiCheck(s) ==
  /\ pc[s] = "multi_check"
  /\ pc' = [pc EXCEPT ![s] = IF both_players_multi_game(g_clients, session)
                             THEN "rematch" ELSE "recv"]
  /\ local' = [local EXCEPT ![s] = IF both_players_multi_game(g_clients, session)
                                   THEN @ ELSE NoLocal]
  /\ sent' = NoneSent
  /\ last_op' = Op("MultiCheck", s)
  /\ UNCHANGED <<lockVars, aiVars>>
  /\ UNCHANGED <<gameVars, g_stats, g_clients, session, nApplied, budget,
                 last_accept, viewSeq>>

\* after the sleep: reset_game(), build_snapshot(), broadcast_state(), under g_game_mutex
AutoReset(s) ==
  /\ pc[s] = "rematch"
  /\ g_state' = GameState_reset
  /\ g_last_move' = <<>>
  /\ g_status' = "ongoing"
  /\ g_game_id' = reset_game_id(g_game_id)
  /\ g_last_received_move_id' = [X |-> 0, O |-> 0]
  /\ session' = broadcast_sessions(g_clients, reset_ready(g_clients, session), budget.down)
  /\ sent' = SentBy(s, <<>>, g_clients, session,
                    build_snapshot(GameState_reset, "ongoing", <<>>,
                                   reset_game_id(g_game_id)),
                    budget.down)
  /\ g_clients' = BroadcastRegistry(g_clients, session, budget.down)
  /\ pc' = [pc EXCEPT ![s] = "recv"]
  /\ local' = [local EXCEPT ![s] = NoLocal]
  /\ last_op' = [op |-> "AutoReset", by |-> s,
                 ready_before |-> {t \in Sessions : session[t].ready}]
  /\ UNCHANGED <<lockVars, aiVars>>
  /\ UNCHANGED <<g_stats, nApplied, budget, last_accept, viewSeq>>

(***************************************************************************)
(* server/main.cpp : handle_ready                                          *)
(***************************************************************************)
\* READY is read: spectators are turned away, else session->ready = true and INFO
RecvReady(s) ==
  /\ pc[s] = "recv"
  /\ s \notin budget.role
  /\ s \notin budget.down
  /\ budget.ready > 0
  /\ budget.opening \/ g_status # "ongoing"
  /\ budget' = [budget EXCEPT !.ready = @ - 1]
  /\ IF session[s].role # "X" /\ session[s].role # "O"
     THEN /\ sent' = SentTo(s, <<ErrorMsg(<<"Spectators cannot ready up">>)>>)
          /\ UNCHANGED <<session, pc>>
     ELSE /\ session' = [session EXCEPT ![s].ready = TRUE]
          /\ sent' = SentTo(s, <<InfoMsg(<<"Ready acknowledged">>)>>)
          /\ pc' = [pc EXCEPT ![s] = "ready_check"]
  /\ last_op' = Op("RecvReady", s)
  /\ UNCHANGED <<lockVars, aiVars>>
  /\ UNCHANGED <<gameVars, g_stats, g_clients, local, nApplied, last_accept, viewSeq>>

\* if (all_players_ready())
ReadyCheck(s) ==
  /\ pc[s] = "ready_check"
  /\ pc' = [pc EXCEPT ![s] = IF all_players_ready(g_clients, session)
                             THEN "ready_reset" ELSE "recv"]
  /\ sent' = NoneSent
  /\ last_op' = Op("ReadyCheck", s)
  /\ UNCHANGED <<lockVars, aiVars>>
  /\ UNCHANGED <<gameVars, g_stats, g_clients, session, local, nApplied, budget,
                 last_accept, viewSeq>>

\* reset_game() under g_game_mutex
ReadyReset(s) ==
  /\ pc[s] = "ready_reset"
  /\ g_state' = GameState_reset
  /\ g_last_move' = <<>>
  /\ g_status' = "ongoing"
  /\ g_game_id' = reset_game_id(g_game_id)
  /\ g_last_received_move_id' = [X |-> 0, O |-> 0]
  /\ session' = reset_ready(g_clients, session)
  /\ pc' = [pc EXCEPT ![s] = "ready_snap"]
  /\ sent' = NoneSent
  /\ last_op' = [op |-> "ReadyReset", by |-> s,
                 ready_before |-> {t \in Sessions : session[t].ready}]
  /\ UNCHANGED <<lockVars, aiVars>>
  /\ UNCHANGED <<g_stats, g_clients, local, nApplied, budget,
                 last_accept, viewSeq>>

\* snapshot = build_snapshot() under g_game_mutex, taken anew
ReadySnapshot(s) ==
  /\ pc[s] = "ready_snap"
  /\ local' = [local EXCEPT ![s] =
                 [NoLocal EXCEPT !.snapshot =
                    build_snapshot(g_state, g_status, g_last_move, g_game_id)]]
  /\ pc' = [pc EXCEPT ![s] = "ready_bcast"]
  /\ sent' = NoneSent
  /\ last_op' = Op("ReadySnapshot", s)
  /\ UNCHANGED <<lockVars, aiVars>>
  /\ UNCHANGED <<gameVars, g_stats, g_clients, session, nApplied, budget,
                 last_accept, viewSeq>>

\* broadcast_state(snapshot)
ReadyBroadcast(s) ==
  /\ pc[s] = "ready_bcast"
  /\ sent' = SentBy(s, <<>>, g_clients, session, local[s].snapshot, budget.down)
  /\ session' = broadcast_sessions(g_clients, session, budget.down)
  /\ g_clients' = BroadcastRegistry(g_clients, session, budget.down)
  /\ pc' = [pc EXCEPT ![s] = "recv"]
  /\ local' = [local EXCEPT ![s] = NoLocal]
  /\ last_op' = Op("ReadyBroadcast", s)
  /\ UNCHANGED <<lockVars, aiVars>>
  /\ UNCHANGED <<gameVars, g_stats, nApplied, budget,
                 last_accept, viewSeq>>

(***************************************************************************)
(* server/main.cpp : handle_role                                           *)
(***************************************************************************)
\* std::toupper over the role token
ToUpper(token) ==
  IF token = "x" THEN "X" ELSE IF token = "o" THEN "O"
  ELSE IF token = "spec" THEN "SPEC" ELSE IF token = "spectator" THEN "SPECTATOR"
  ELSE token

\* handle_role: the role a token asks for; "" stands for "Unknown role"
requested_role_of(role_token, current) ==
  LET normalized == ToUpper(role_token)
  IN  IF normalized = "-" THEN current
      ELSE IF normalized = "X" \/ normalized = "O" THEN normalized
      ELSE IF normalized = "SPECTATOR" \/ normalized = "SPEC" THEN "spectator"
      ELSE ""

\* ROLE <role> <name> <model> [multi] is read: the role is taken if it is free
RecvRole(s, role_token, multi) ==
  /\ pc[s] = "recv"
  /\ s \notin budget.down
  /\ IF role_token = "-" THEN s \in budget.role /\ multi
     ELSE s \notin budget.role /\ budget.switch > 0
  /\ budget' = [budget EXCEPT !.role = @ \ {s},
                              !.switch = IF role_token = "-" THEN @ ELSE @ - 1]
  /\ LET requested_role == requested_role_of(role_token, session[s].role)
         \* session->multi_game = true is written before the registry is locked
         sess1 == IF multi THEN [session EXCEPT ![s].multi_game = TRUE] ELSE session
     IN  IF requested_role = ""
         THEN /\ session' = sess1
              /\ sent' = SentTo(s, <<ErrorMsg(<<"Unknown role: ", role_token>>)>>)
              /\ UNCHANGED pc
         ELSE IF role_in_use_locked(g_clients, sess1, requested_role, s)
         THEN /\ session' = sess1
              /\ sent' = SentTo(s, <<ErrorMsg(<<requested_role, " already taken">>)>>)
              /\ UNCHANGED pc
         ELSE /\ session' = [sess1 EXCEPT ![s].role = requested_role,
                                          ![s].multi_game = IF ~multi THEN FALSE ELSE @]
              /\ sent' = SentTo(s, <<InfoMsg(<<"You are ", requested_role>>)>>)
              /\ pc' = [pc EXCEPT ![s] = "role_state"]
  /\ last_op' = Op("RecvRole", s)
  /\ UNCHANGED <<lockVars, aiVars>>
  /\ UNCHANGED <<gameVars, g_stats, g_clients, local, nApplied, last_accept, viewSeq>>

\* send_state_to(session->socket, build_snapshot()) under g_game_mutex
RoleState(s) ==
  /\ pc[s] = "role_state"
  /\ IF s \in budget.down
     THEN Thrown(s)
     ELSE /\ sent' = SentTo(s, <<StateMsg(build_snapshot(g_state, g_status, g_last_move,
                                                          g_game_id))>>)
          /\ pc' = [pc EXCEPT ![s] = "recv"]
          /\ UNCHANGED <<g_clients, session>>
  /\ last_op' = Op("RoleState", s)
  /\ UNCHANGED <<lockVars, aiVars>>
  /\ UNCHANGED <<gameVars, g_stats, local, nApplied, budget, last_accept, viewSeq>>

(***************************************************************************)
(* the peers                                                               *)
(***************************************************************************)
\* the connection of a session breaks: from now on send() to it fails
PeerBreak(s) ==
  /\ budget.breaks > 0
  /\ s \notin budget.down
  /\ pc[s] \notin {"unborn", "closed", "players_check", "soft_reset", "done"}
  /\ budget' = [budget EXCEPT !.breaks = @ - 1, !.down = @ \cup {s}]
  /\ sent' = NoneSent
  /\ last_op' = Op("PeerBreak", s)
  /\ UNCHANGED <<lockVars, aiVars>>
  /\ UNCHANGED <<gameVars, g_stats, g_clients, session, pc, local, nApplied,
                 last_accept, viewSeq>>

(***************************************************************************)
(* server/main.cpp : client_thread after its read loop                     *)
(***************************************************************************)
\* recv_line returns nullopt: session->active = false; ::close(session->socket)
RecvEof(s) ==
  /\ pc[s] = "recv"
  /\ s \notin budget.role
  /\ s \in budget.down \/ budget.eof > 0
  /\ budget' = IF s \in budget.down THEN budget ELSE [budget EXCEPT !.eof = @ - 1]
  /\ session' = [session EXCEPT ![s].active = FALSE]
  /\ pc' = [pc EXCEPT ![s] = "closed"]
  /\ sent' = NoneSent
  /\ last_op' = Op("RecvEof", s)
  /\ UNCHANGED <<lockVars, aiVars>>
  /\ UNCHANGED <<gameVars, g_stats, g_clients, local, nApplied, last_accept, viewSeq>>

\* remove_client(session)
RemoveClient(s) ==
  /\ pc[s] = "closed"
  /\ g_clients' = remove_client(g_clients, s)
  /\ pc' = [pc EXCEPT ![s] = "players_check"]
  /\ sent' = NoneSent
  /\ last_op' = Op("RemoveClient", s)
  /\ UNCHANGED <<lockVars, aiVars>>
  /\ UNCHANGED <<gameVars, g_stats, session, local, nApplied, budget,
                 last_accept, viewSeq>>

\* the test with || in place of &&, which C17 tells from no_players_left
no_player_left(clients, sess) ==
  Holders(clients, sess, "X") = {} \/ Holders(clients, sess, "O") = {}

\* !has_x && !has_o after the scan of g_clients
no_players_left(clients, sess) ==
  Holders(clients, sess, "X") = {} /\ Holders(clients, sess, "O") = {}

\* under g_clients_mutex: if no active X and no active O is left, clear every ready flag
PlayersCheck(s) ==
  /\ pc[s] = "players_check"
  /\ LET should_reset == no_players_left(g_clients, session)
     IN  /\ session' = IF should_reset THEN reset_ready(g_clients, session) ELSE session
         /\ pc' = [pc EXCEPT ![s] = IF should_reset THEN "soft_reset" ELSE "done"]
  /\ sent' = NoneSent
  /\ last_op' = Op("PlayersCheck", s)
  /\ UNCHANGED <<lockVars, aiVars>>
  /\ UNCHANGED <<gameVars, g_stats, g_clients, local, nApplied, budget,
                 last_accept, viewSeq>>

\* if (should_reset): g_state = GameState(); g_last_move.clear(); g_status = "ongoing"
SoftReset(s) ==
  /\ pc[s] = "soft_reset"
  /\ g_state' = GameState_reset
  /\ g_last_move' = <<>>
  /\ g_status' = "ongoing"
  /\ pc' = [pc EXCEPT ![s] = "done"]
  /\ sent' = NoneSent
  /\ last_op' = Op("SoftReset", s)
  /\ UNCHANGED <<lockVars, aiVars>>
  /\ UNCHANGED <<g_game_id, g_last_received_move_id, g_stats, g_clients, session, local,
                 nApplied, budget, last_accept, viewSeq>>

Next ==
  \E s \in Sessions :
    \/ Accept(s)
    \/ RecvMove(s)
    \/ StaleResync(s)
    \/ MoveWrongTurn(s)
    \/ MoveDuplicate(s)
    \/ MoveIllegal(s)
    \/ MoveAccept(s)
    \/ MoveBroadcast(s)
    \/ MultiCheck(s)
    \/ AutoReset(s)
    \/ RecvReady(s)
    \/ ReadyCheck(s)
    \/ ReadyReset(s)
    \/ ReadySnapshot(s)
    \/ ReadyBroadcast(s)
    \/ \E r \in InputRoles : RecvRole(s, r[1], r[2])
    \/ RoleState(s)
    \/ PeerBreak(s)
    \/ RecvEof(s)
    \/ RemoveClient(s)
    \/ PlayersCheck(s)
    \/ SoftReset(s)

Spec == Init /\ [][Next]_vars

(***************************************************************************)
(* server/main.cpp : the mutexes.  Every handler is the sequence of lock,  *)
(* unlock and send operations it performs, by the path it takes; threads   *)
(* interleave between any two operations.                                  *)
(***************************************************************************)
LockCommands == 3   \* handlers run by all threads together
LockStalls == 1     \* peers that stop draining their socket

LockOp(m) == [op |-> "lock", m |-> m]
UnlockOp(m) == [op |-> "unlock", m |-> m]
SendOwn == [op |-> "send", m |-> "own"]      \* send_all to the worker's own session
SendEach == [op |-> "send", m |-> "each"]    \* the send_all loop of broadcast_state
ThreadEnd == [op |-> "end", m |-> "none"]    \* client_thread returns

\* { std::lock_guard<std::mutex> lock(m); ops }
Locked(m, ops) == <<LockOp(m)>> \o ops \o <<UnlockOp(m)>>

broadcast_state_ops == Locked("clients", <<SendEach>>)
reset_game_ops == Locked("clients", <<>>)
record_game_result_ops == Locked("clients", <<>>)
all_players_ready_ops == Locked("clients", <<>>)
both_players_multi_game_ops == Locked("clients", <<>>)
remove_client_ops == Locked("clients", <<>>)

\* handle_move, by the way it ends
handle_move_ops(path) ==
  LET game_id_check == Locked("game", <<>>)
      applied(ended) ==
        game_id_check
          \o Locked("game", IF ended THEN record_game_result_ops ELSE <<>>)
          \o broadcast_state_ops
          \o (IF ended THEN both_players_multi_game_ops ELSE <<>>)
  IN  IF path = "spectator" THEN <<SendOwn>>
      ELSE IF path = "stale" THEN game_id_check \o <<SendOwn>> \o broadcast_state_ops
      ELSE IF path = "turn" THEN game_id_check \o Locked("game", <<SendOwn>>)
      ELSE IF path \in {"duplicate", "illegal"}
      THEN game_id_check \o Locked("game", <<SendOwn>> \o broadcast_state_ops)
      ELSE IF path = "applied" THEN applied(FALSE)
      ELSE IF path = "ended" THEN applied(TRUE)
      ELSE \* "rematch"
           applied(TRUE) \o Locked("game", reset_game_ops \o broadcast_state_ops)

\* handle_role, by the way it ends
handle_role_ops(path) ==
  IF path = "unknown" THEN <<SendOwn>>
  ELSE IF path = "taken" THEN Locked("clients", <<SendOwn>>)
  ELSE Locked("clients", <<>>) \o <<SendOwn>> \o Locked("game", <<SendOwn>>)

\* handle_ready, by the way it ends
handle_ready_ops(path) ==
  LET acknowledged == Locked("clients", <<>>) \o <<SendOwn>> \o all_players_ready_ops
  IN  IF path = "spectator" THEN <<SendOwn>>
      ELSE IF path = "waiting" THEN acknowledged
      ELSE acknowledged \o Locked("game", reset_game_ops) \o Locked("game", <<>>)
             \o broadcast_state_ops

\* client_thread: GET_STATE
get_state_ops == Locked("game", <<SendOwn>>)

\* client_thread: GET_STATS and unknown commands
get_stats_ops == <<SendOwn>>

\* client_thread after its loop, with the game lock taken inside the registry lock,
\* which C13 tells from client_exit_ops
client_exit_ops_nested(should_reset) ==
  remove_client_ops
    \o Locked("clients", IF should_reset THEN Locked("game", <<>>) ELSE <<>>)
    \o <<ThreadEnd>>

\* client_thread after its loop
client_exit_ops(should_reset) ==
  remove_client_ops
    \o Locked("clients", <<>>)
    \o (IF should_reset THEN Locked("game", <<>>) ELSE <<>>)
    \o <<ThreadEnd>>

\* accept_loop: one accepted connection
accept_loop_ops == Locked("clients", <<>>)

\* what a thread may be asked to run
Handlers(t) ==
  IF t = Acceptor THEN {accept_loop_ops}
  ELSE {handle_move_ops(path) : path \in {"spectator", "stale", "turn", "duplicate",
                                            "illegal", "applied", "ended", "rematch"}}
         \cup {handle_role_ops(path) : path \in {"unknown", "taken", "given"}}
         \cup {handle_ready_ops(path) : path \in {"spectator", "waiting", "reset"}}
         \cup {get_state_ops, get_stats_ops}
         \cup {client_exit_ops(should_reset) : should_reset \in BOOLEAN}

LockClients == [commands |-> LockCommands, stalls |-> LockStalls, stalled |-> {}]

LockInit == Start(LockClients)

Mutex(m) == IF m = "game" THEN g_game_mutex ELSE g_clients_mutex

\* the operation thread t does next
NextOp(t) == IF thread[t] = <<>> THEN [op |-> "idle", m |-> "none"] ELSE Head(thread[t])

\* the sessions a send operation of thread t writes to
SendTargets(t) == IF NextOp(t).m = "own" THEN {t} ELSE Sessions

\* a line is read (or a connection accepted) and its handler starts
Command(t) ==
  /\ thread[t] = <<>>
  /\ budget.commands > 0
  /\ \E ops \in Handlers(t) : thread' = [thread EXCEPT ![t] = ops]
  /\ budget' = [budget EXCEPT !.commands = @ - 1]
  /\ UNCHANGED <<g_game_mutex, g_clients_mutex>>
  /\ UNCHANGED <<serverVars, aiVars>>

\* std::lock_guard's constructor: waits until the mutex is free
Acquire(t) ==
  /\ NextOp(t).op = "lock"
  /\ Mutex(NextOp(t).m) = Nobody
  /\ IF NextOp(t).m = "game"
     THEN g_game_mutex' = t /\ UNCHANGED g_clients_mutex
     ELSE g_clients_mutex' = t /\ UNCHANGED g_game_mutex
  /\ thread' = [thread EXCEPT ![t] = Tail(@)]
  /\ UNCHANGED budget
  /\ UNCHANGED <<serverVars, aiVars>>

\* std::lock_guard's destructor
Release(t) ==
  /\ NextOp(t).op = "unlock"
  /\ IF NextOp(t).m = "game"
     THEN g_game_mutex' = Nobody /\ UNCHANGED g_clients_mutex
     ELSE g_clients_mutex' = Nobody /\ UNCHANGED g_game_mutex
  /\ thread' = [thread EXCEPT ![t] = Tail(@)]
  /\ UNCHANGED budget
  /\ UNCHANGED <<serverVars, aiVars>>

\* send_all returns once the kernel has taken the bytes: never, for a stalled peer
Send(t) ==
  /\ NextOp(t).op = "send"
  /\ SendTargets(t) \cap budget.stalled = {}
  /\ thread' = [thread EXCEPT ![t] = Tail(@)]
  /\ UNCHANGED <<g_game_mutex, g_clients_mutex, budget>>
  /\ UNCHANGED <<serverVars, aiVars>>

\* a peer stops reading and the socket buffers are full
PeerStall(t) ==
  /\ t \in Sessions
  /\ budget.stalls > 0
  /\ t \notin budget.stalled
  /\ budget' = [budget EXCEPT !.stalls = @ - 1, !.stalled = @ \cup {t}]
  /\ UNCHANGED <<lockVars, aiVars>>
  /\ UNCHANGED <<serverVars, aiVars>>

LockNext ==
  \E t \in Threads :
    \/ Command(t)
    \/ Acquire(t)
    \/ Release(t)
    \/ Send(t)
    \/ PeerStall(t)

LockSpec == LockInit /\ [][LockNext]_vars

(***************************************************************************)
(* ai/src/rule_based_policy.cpp                                            *)
(***************************************************************************)
Abs(n) == IF n < 0 THEN -n ELSE n

MinOf(S) == CHOOSE n \in S : \A m \in S : n <= m

\* "for x in 0..4, for y in 0..4": the cells as <<x, y>>, x outermost
ColumnOrder == [k \in 1..NumCells |-> <<(k - 1) \div BOARD_H, (k - 1) % BOARD_H>>]

\* a loop "if (score > best_score) { best_score = score; best = &m; }" over the scores,
\* begun with best_score = floor: the first index of the greatest score above floor,
\* 0 when no score is above it
BestIndex(scores, floor) ==
  LET above == {i \in DOMAIN scores : scores[i] > floor}
  IN  IF above = {} THEN 0
      ELSE LET top == MaxOf({scores[i] : i \in above})
           IN  MinOf({i \in above : scores[i] = top})

\* RuleBasedPolicy::is_winning_move
is_winning_move(s, m) == is_win(apply_move(s, m), s.to_move)

\* distance_to_nearest_empty_goal (both policies define it alike)
distance_to_nearest_empty_goal(s, x, y, player) ==
  LET goal_row == IF player = "Black" THEN 4 ELSE 0
      dists == {Abs(x - gx) + Abs(y - goal_row) :
                  gx \in {g \in 0..4 : at(s.board, g, goal_row).occupant = "None"}}
  IN  IF dists = {} THEN Abs(y - goal_row) ELSE MinOf(dists)

\* min_distance_to_empty_goal (both policies define it alike)
min_distance_to_empty_goal(s, player) ==
  LET dists == {distance_to_nearest_empty_goal(s, c[1], c[2], player) :
                  c \in {c \in {ColumnOrder[k] : k \in 1..NumCells} :
                           at(s.board, c[1], c[2]).occupant = player}}
  IN  IF dists = {} THEN 1000 ELSE MinOf(dists)

\* score_move_to_empty_goal
score_move_to_empty_goal(s, m, player) ==
  LET dist_before == distance_to_nearest_empty_goal(s, m.sx, m.sy, player)
      dist_after == distance_to_nearest_empty_goal(s, m.dx, m.dy, player)
      progress == dist_before - dist_after
      rear_bonus == dist_before * 30
      row_delta == m.dy - m.sy
      row_progress == IF player = "Black" THEN row_delta ELSE -row_delta
      lateral_penalty == IF row_progress <= 0 THEN -50 ELSE 0
  IN  rear_bonus + progress * 25 + row_progress * 40 + lateral_penalty

\* find_block_moves: for every opponent piece within two rows of its goal, in column
\* order, every move that ends next to it, pushed again for every such piece
RECURSIVE find_block_moves(_, _, _, _, _)
find_block_moves(s, opponent, all_moves, block_moves, k) ==
  IF k > NumCells THEN block_moves
  ELSE LET x == ColumnOrder[k][1]
           y == ColumnOrder[k][2]
           opp_goal == IF opponent = "Black" THEN 4 ELSE 0
           near == SelectSeq(all_moves,
                             LAMBDA m : Abs(m.dx - x) <= 1 /\ Abs(m.dy - y) <= 1)
       IN  IF at(s.board, x, y).occupant = opponent /\ Abs(y - opp_goal) <= 2
           THEN find_block_moves(s, opponent, all_moves, push_all(block_moves, near, 1), k + 1)
           ELSE find_block_moves(s, opponent, all_moves, block_moves, k + 1)

\* the score select_best_block_move gives one blocking move; -1000 stands for a move
\* that is next to no opponent piece and so never replaces the best
block_score(s, opponent, m) ==
  LET opp_goal == IF opponent = "Black" THEN 4 ELSE 0
      close == {c \in {ColumnOrder[k] : k \in 1..NumCells} :
                  /\ at(s.board, c[1], c[2]).occupant = opponent
                  /\ Abs(m.dx - c[1]) <= 1 /\ Abs(m.dy - c[2]) <= 1}
  IN  IF close = {} THEN -1000
      ELSE LET min_opp_dist == MinOf({Abs(c[2] - opp_goal) : c \in close})
               \* the first piece of the scan at that distance; all of them share the row
               closest_opp_y == (CHOOSE c \in close : Abs(c[2] - opp_goal) = min_opp_dist)[2]
               threat_score == (5 - min_opp_dist) * 100
               blocks_path == IF opponent = "Black"
                              THEN m.dy > closest_opp_y /\ m.dy <= 4
                              ELSE m.dy < closest_opp_y /\ m.dy >= 0
           IN  threat_score + (IF blocks_path THEN 50 ELSE 0)

\* select_best_block_move
select_best_block_move(s, opponent, block_moves) ==
  IF block_moves = <<>> THEN MoveDefault
  ELSE LET scores == [i \in DOMAIN block_moves |-> block_score(s, opponent, block_moves[i])]
           best == BestIndex(scores, -1000)
       IN  IF best = 0 THEN block_moves[1] ELSE block_moves[best]

\* RuleBasedPolicy::pick
RuleBasedPolicy_pick(s) ==
  LET moves == legal_moves(s)
      me == s.to_move
      opp == Opponent(me)
      winning == {i \in DOMAIN moves : is_winning_move(s, moves[i])}
      block_moves == find_block_moves(s, opp, moves, <<>>, 1)
      scores == [i \in DOMAIN moves |-> score_move_to_empty_goal(s, moves[i], me)]
  IN  IF moves = <<>> THEN MoveDefault
      ELSE IF winning # {} THEN moves[MinOf(winning)]
      ELSE IF min_distance_to_empty_goal(s, opp) = 1 /\ block_moves # <<>>
           THEN select_best_block_move(s, opp, block_moves)
      ELSE moves[BestIndex(scores, MinOf({scores[i] : i \in DOMAIN scores}) - 1)]

(***************************************************************************)
(* ai/src/rule_based_policy2.cpp                                           *)
(***************************************************************************)
row_progress(p, m) == IF p = "Black" THEN m.dy - m.sy ELSE -(m.dy - m.sy)

project_row(me, y, height) == IF me = "Black" THEN y ELSE height - 1 - y

\* +1 for Black, which walks toward y = 4, -1 for White
Dir(me) == IF me = "Black" THEN 1 ELSE -1

\* one ColumnInfo of collect_column_info
ColumnInfo(s, me, opponent, x) ==
  LET dir == Dir(me)
      rows == 0..(BOARD_H - 1)
      friends == {y \in rows : at(s.board, x, y).occupant = me}
      enemies == {y \in rows : at(s.board, x, y).occupant = opponent}
      has_friend == friends # {}
      \* the last friend the scan meets: the one furthest ahead
      friend_row == IF ~has_friend THEN -1
                    ELSE IF dir = 1 THEN MaxOf(friends) ELSE MinOf(friends)
      has_enemy_front == enemies # {}
      \* the first enemy the scan meets: the one nearest to the own side
      enemy_front_row == IF ~has_enemy_front THEN -1
                         ELSE IF dir = 1 THEN MinOf(enemies) ELSE MaxOf(enemies)
      ahead == {y \in enemies : IF dir = 1 THEN y > friend_row ELSE y < friend_row}
      has_enemy_ahead == has_friend /\ ahead # {}
      enemy_ahead_row == IF ~has_enemy_ahead THEN -1
                         ELSE IF dir = 1 THEN MinOf(ahead) ELSE MaxOf(ahead)
      gap0 == IF dir = 1 THEN enemy_ahead_row - friend_row - 1
              ELSE friend_row - enemy_ahead_row - 1
  IN  [x |-> x,
       has_friend |-> has_friend,
       friend_row |-> friend_row,
       friend_proj |-> IF has_friend THEN project_row(me, friend_row, BOARD_H) ELSE -1,
       has_enemy_front |-> has_enemy_front,
       enemy_front_row |-> enemy_front_row,
       enemy_front_proj |-> IF has_enemy_front
                            THEN project_row(me, enemy_front_row, BOARD_H) ELSE -1,
       has_enemy_ahead |-> has_enemy_ahead,
       enemy_ahead_row |-> enemy_ahead_row,
       gap |-> IF ~has_enemy_ahead THEN -1 ELSE IF gap0 < 0 THEN 0 ELSE gap0]

\* collect_column_info
collect_column_info(s, me, opponent) ==
  [x \in 0..(BOARD_W - 1) |-> ColumnInfo(s, me, opponent, x)]

\* RuleBasedPolicy2::checkImmediateWin
checkImmediateWin(s, m) == is_win(apply_move(s, m), s.to_move)

\* RuleBasedPolicy2::blockImmediateThreat: the index of out_move, 0 for false
blockImmediateThreat(s, opponent, moves) ==
  IF min_distance_to_empty_goal(s, opponent) > 1 THEN 0
  ELSE LET saves == {i \in DOMAIN moves :
                       min_distance_to_empty_goal(apply_move(s, moves[i]), opponent) > 1}
       IN  IF saves = {} THEN 0 ELSE MinOf(saves)

\* the score of one move in the odd branch of paritySkirmishControl, 0 for a move the
\* loop passes over
parity_forward_score(me, columns, m) ==
  LET col == columns[m.sx]
      remaining0 == IF Dir(me) = 1 THEN col.enemy_ahead_row - m.dy - 1
                    ELSE m.dy - col.enemy_ahead_row - 1
      remaining == IF remaining0 < 0 THEN 0 ELSE remaining0
  IN  IF m.place_tile \/ m.dx # m.sx \/ row_progress(me, m) <= 0 THEN 0
      ELSE IF ~col.has_friend \/ col.friend_row # m.sy THEN 0
      ELSE row_progress(me, m) * 120
           + (IF col.gap >= 0 THEN (col.gap + 1) * 25 ELSE 0)
           + (IF col.has_enemy_ahead
              THEN (IF 60 - remaining * 15 > 0 THEN 60 - remaining * 15 ELSE 0) ELSE 0)

\* the score of one move in the even branch of paritySkirmishControl
parity_tile_score(me, columns, widest_col, m) ==
  IF ~m.place_tile \/ m.tx < 0 \/ m.tx >= BOARD_W THEN 0
  ELSE LET col == columns[m.tx]
           desired_row == col.enemy_front_row - Dir(me)
       IN  IF ~col.has_friend \/ ~col.has_enemy_front THEN 0
           ELSE IF desired_row < 0 \/ desired_row >= BOARD_H \/ m.ty # desired_row THEN 0
           ELSE 140 + (IF col.gap >= 0 THEN col.gap * 12 ELSE 0)
                + (IF m.tx = widest_col THEN 30 ELSE 0)
                + (IF m.tile = "Gray" THEN 30 ELSE 0)
                + (IF m.tile = "Black" THEN 20 ELSE 0)

RECURSIVE SumGaps(_, _)
SumGaps(columns, x) ==
  IF x >= BOARD_W THEN 0
  ELSE (IF columns[x].gap >= 0 THEN columns[x].gap ELSE 0) + SumGaps(columns, x + 1)

\* RuleBasedPolicy2::paritySkirmishControl: the index of out_move, 0 for false
paritySkirmishControl(s, me, opponent, moves) ==
  LET columns == collect_column_info(s, me, opponent)
      counted == {x \in DOMAIN columns : columns[x].gap >= 0}
      total_gap == SumGaps(columns, 0)
      widest_gap == MaxOf({columns[x].gap : x \in counted})
      widest_col == MinOf({x \in counted : columns[x].gap = widest_gap})
      wants_forward == total_gap % 2 = 1
  IN  IF counted = {} THEN 0
      ELSE IF wants_forward
           THEN BestIndex([i \in DOMAIN moves |-> parity_forward_score(me, columns, moves[i])], 0)
           ELSE BestIndex([i \in DOMAIN moves |->
                             parity_tile_score(me, columns, widest_col, moves[i])], 0)

\* the columns interdictRowFormation aims at, in ascending order: those whose enemy front
\* is two or more rows off a neighbour's, or else the column of the nearest enemy front
interdict_targets(columns) ==
  LET irregular(i) ==
        /\ columns[i].has_enemy_front
        /\ \/ /\ i > 0
              /\ columns[i - 1].has_enemy_front
              /\ Abs(columns[i - 1].enemy_front_proj - columns[i].enemy_front_proj) >= 2
           \/ /\ i + 1 < BOARD_W
              /\ columns[i + 1].has_enemy_front
              /\ Abs(columns[i + 1].enemy_front_proj - columns[i].enemy_front_proj) >= 2
      targets == SelectSeq([k \in 1..BOARD_W |-> k - 1], irregular)
      fronts == {x \in DOMAIN columns : columns[x].has_enemy_front}
      closest == MinOf({columns[x].enemy_front_proj : x \in fronts})
  IN  IF targets # <<>> THEN targets
      ELSE IF fronts = {} THEN <<>>
      ELSE << MinOf({x \in fronts : columns[x].enemy_front_proj = closest}) >>

\* the loop over the targets inside interdictRowFormation, for one move
RECURSIVE interdict_target_score(_, _, _, _, _, _)
interdict_target_score(me, columns, targets, m, k, score) ==
  IF k > Len(targets) THEN score
  ELSE LET target_col == columns[targets[k]]
           row_diff == Abs(m.ty - target_col.enemy_front_row)
           raised == IF 80 - row_diff * 15 > score THEN 80 - row_diff * 15 ELSE score
           ahead == IF Dir(me) = 1 THEN m.ty >= target_col.enemy_front_row
                    ELSE m.ty <= target_col.enemy_front_row
       IN  IF Abs(m.tx - targets[k]) > 1 \/ ~target_col.has_enemy_front
           THEN interdict_target_score(me, columns, targets, m, k + 1, score)
           ELSE interdict_target_score(me, columns, targets, m, k + 1,
                                       IF ahead THEN raised + 20 ELSE raised)

\* the score of one move in interdictRowFormation, 0 for a move the loop passes over
interdict_score(me, columns, targets, m) ==
  IF ~m.place_tile THEN 0
  ELSE LET score == interdict_target_score(me, columns, targets, m, 1, 0)
       IN  IF score = 0 THEN 0
           ELSE score + (IF m.tile = "Gray" THEN 25 ELSE 0)
                      + (IF m.tile = "Black" THEN 15 ELSE 0)

\* RuleBasedPolicy2::interdictRowFormation: the index of out_move, 0 for false
interdictRowFormation(s, me, opponent, moves) ==
  LET columns == collect_column_info(s, me, opponent)
      targets == interdict_targets(columns)
  IN  IF targets = <<>> THEN 0
      ELSE BestIndex([i \in DOMAIN moves |-> interdict_score(me, columns, targets, moves[i])], 0)

\* the score of one move in prioritizeLeadPiece, 0 for a move the loop passes over
lead_score(me, columns, m) ==
  IF m.place_tile \/ row_progress(me, m) <= 0 \/ m.dx # m.sx THEN 0
  ELSE IF m.sx # 0 /\ m.sx # BOARD_W - 1 THEN 0
  ELSE row_progress(me, m) * 110
       + (IF columns[m.sx].has_friend /\ columns[m.sx].friend_row = m.sy THEN 30 ELSE 0)
       + project_row(me, m.dy, BOARD_H) * 5

\* RuleBasedPolicy2::prioritizeLeadPiece: the index of out_move, 0 for false
prioritizeLeadPiece(s, me, moves) ==
  LET columns == collect_column_info(s, me, Opponent(me))
  IN  BestIndex([i \in DOMAIN moves |-> lead_score(me, columns, moves[i])], 0)

\* the score of one move in outflankStraightRunner, 0 for a move the loop passes over
outflank_score(me, columns, closest_enemy, m) ==
  LET col == columns[m.sx]
      desired_row == col.enemy_front_row - Dir(me)
      after_gap0 == IF Dir(me) = 1 THEN col.enemy_front_row - m.dy - 1
                    ELSE m.dy - col.enemy_front_row - 1
      after_gap == IF after_gap0 < 0 THEN 0 ELSE after_gap0
      dist_to_desired == Abs(m.dy - desired_row)
  IN  IF m.place_tile \/ row_progress(me, m) <= 0 THEN 0
      ELSE IF ~col.has_enemy_front \/ col.enemy_front_proj > closest_enemy + 1 THEN 0
      ELSE 100 - after_gap * 35
           + (IF col.has_friend /\ col.friend_row = m.sy THEN 30 ELSE 0)
           + (IF 40 - dist_to_desired * 15 > 0 THEN 40 - dist_to_desired * 15 ELSE 0)

\* RuleBasedPolicy2::outflankStraightRunner: the index of out_move, 0 for false
outflankStraightRunner(s, me, opponent, moves) ==
  LET columns == collect_column_info(s, me, opponent)
      fronts == {x \in DOMAIN columns : columns[x].has_enemy_front}
      closest_enemy == MinOf({columns[x].enemy_front_proj : x \in fronts})
  IN  IF fronts = {} THEN 0
      ELSE BestIndex([i \in DOMAIN moves |->
                        outflank_score(me, columns, closest_enemy, moves[i])], 0)

\* the score of one move in fallbackByScore
fallback_score(s, me, m) ==
  row_progress(me, m) * 80
  - distance_to_nearest_empty_goal(s, m.dx, m.dy, me) * 15
  + (IF ~m.place_tile
     THEN (IF at(s.board, m.dx, m.dy).occupant = Opponent(me) THEN 50 ELSE 0)
     ELSE (IF m.tile = "Gray" THEN 30 ELSE IF m.tile = "Black" THEN 15 ELSE 0)
          + (IF Abs(m.tx - m.sx) <= 1 THEN 10 ELSE 0))

\* RuleBasedPolicy2::fallbackByScore: best starts at &moves[0], best_score at INT_MIN
fallbackByScore(s, me, moves) ==
  LET scores == [i \in DOMAIN moves |-> fallback_score(s, me, moves[i])]
  IN  moves[BestIndex(scores, MinOf({scores[i] : i \in DOMAIN scores}) - 1)]

\* RuleBasedPolicy2::pick
RuleBasedPolicy2_pick(s) ==
  LET moves == legal_moves(s)
      me == s.to_move
      opp == Opponent(me)
      winning == {i \in DOMAIN moves : checkImmediateWin(s, moves[i])}
      blocking == blockImmediateThreat(s, opp, moves)
      parity == paritySkirmishControl(s, me, opp, moves)
      interdict == interdictRowFormation(s, me, opp, moves)
      lead == prioritizeLeadPiece(s, me, moves)
      outflank == outflankStraightRunner(s, me, opp, moves)
  IN  IF moves = <<>> THEN MoveDefault
      ELSE IF winning # {} THEN moves[MinOf(winning)]
      ELSE IF blocking # 0 THEN moves[blocking]
      ELSE IF parity # 0 THEN moves[parity]
      ELSE IF interdict # 0 THEN moves[interdict]
      ELSE IF lead # 0 THEN moves[lead]
      ELSE IF outflank # 0 THEN moves[outflank]
      ELSE fallbackByScore(s, me, moves)

(***************************************************************************)
(* core/include/contrast/symmetry.hpp                                      *)
(***************************************************************************)
\* SymmetryOps::transform_board : FlipH mirrors every row, Identity copies
transform_board(original, sym) ==
  IF sym = "Identity" THEN original
  ELSE [i \in 0..(NumCells - 1) |->
          at(original, BOARD_W - 1 - (i % BOARD_W), i \div BOARD_W)]

\* hash = hash * 9 + v in uint64_t, for v in 0..8
MulNineAdd(h, v) ==
  LET c0 == h[1] * 9 + v
      c1 == h[2] * 9 + (c0 \div Limb)
      c2 == h[3] * 9 + (c1 \div Limb)
      c3 == h[4] * 9 + (c2 \div Limb)
  IN  <<c0 % Limb, c1 % Limb, c2 % Limb, c3 % Limb>>

\* the lambda board_hash of get_canonical_symmetry, from cell i on
RECURSIVE board_hash_from(_, _, _)
board_hash_from(h, b, i) ==
  IF i >= NumCells THEN h
  ELSE LET h1 == MulNineAdd(h, PlayerValue(b[i].occupant) * 3 + TileValue(b[i].tile))
       IN  \* the hash is a value before the next cell is folded in
           IF Len(h1) = 4 THEN board_hash_from(h1, b, i + 1) ELSE h1

board_hash(b) == board_hash_from(<<0, 0, 0, 0>>, b, 0)

\* a < b for two uint64_t values
LimbsLess(a, b) ==
  \E k \in 1..4 : a[k] < b[k] /\ \A j \in (k + 1)..4 : a[j] = b[j]

\* get_canonical_symmetry with flipped_hash <= original_hash, which C26 tells from
\* get_canonical_symmetry
get_canonical_symmetry_ties_flip(board) ==
  IF ~LimbsLess(board_hash(board), board_hash(transform_board(board, "FlipH")))
  THEN "FlipH" ELSE "Identity"

\* SymmetryOps::get_canonical_symmetry
get_canonical_symmetry(board) ==
  IF LimbsLess(board_hash(transform_board(board, "FlipH")), board_hash(board))
  THEN "FlipH" ELSE "Identity"

(***************************************************************************)
(* ai/include/ntuple_big.hpp, ai/src/ntuple.cpp  (SEPARATE_ENCODING)       *)
(***************************************************************************)
\* NTuple::encode_cell_piece : 0 empty, 1 the current player's piece, 2 the other's
encode_cell_piece(c, current_player) ==
  IF c.occupant = "None" THEN 0
  ELSE IF c.occupant = current_player THEN 1 ELSE 2

\* NTuple::encode_cell_tile
encode_cell_tile(c) == TileValue(c.tile)

\* the patterns of NTupleNetwork::init_tuples, as cell indices y * 5 + x
base_patterns ==
  << <<0, 1, 2, 3, 4, 5, 6, 7, 8, 9>>,
     <<5, 6, 7, 8, 9, 10, 11, 12, 13, 14>>,
     <<10, 11, 12, 13, 14, 15, 16, 17, 18, 19>>,
     <<15, 16, 17, 18, 19, 20, 21, 22, 23, 24>>,
     <<0, 5, 10, 15, 20, 1, 6, 11, 16, 21>>,
     <<1, 6, 11, 16, 21, 2, 7, 12, 17, 22>>,
     <<2, 7, 12, 17, 22, 3, 8, 13, 18, 23>>,
     <<0, 1, 2, 5, 6, 7, 10, 11, 12>>,
     <<1, 2, 3, 6, 7, 8, 11, 12, 13>>,
     <<5, 6, 7, 10, 11, 12, 15, 16, 17>>,
     <<6, 7, 8, 11, 12, 13, 16, 17, 18>>,
     <<10, 11, 12, 15, 16, 17, 20, 21, 22>>,
     <<11, 12, 13, 16, 17, 18, 21, 22, 23>>,
     <<0, 1, 2, 3, 4, 5, 10, 15, 20>>,
     <<0, 1, 2, 3, 4, 6, 11, 16, 21>>,
     <<0, 1, 2, 3, 4, 7, 12, 17, 22>> >>

\* NTuple::to_index at offset (0, 0), from the i-th cell of the pattern on
RECURSIVE to_index_from(_, _, _, _, _)
to_index_from(board, cells, current_player, i, idx) ==
  IF i > Len(cells) THEN idx
  ELSE LET idx1 == idx * 3 + encode_cell_piece(board[cells[i]], current_player)
       IN  IF idx1 >= 0 THEN to_index_from(board, cells, current_player, i + 1, idx1)
           ELSE idx1

to_index(board, cells, current_player) ==
  to_index_from(board, cells, current_player, 1, 0)

\* the index loop of the tile patterns in NTupleNetwork::evaluate
RECURSIVE tile_index_from(_, _, _, _)
tile_index_from(board, cells, i, idx) ==
  IF i > Len(cells) THEN idx
  ELSE LET idx1 == idx * 3 + encode_cell_tile(board[cells[i]])
       IN  IF idx1 >= 0 THEN tile_index_from(board, cells, i + 1, idx1) ELSE idx1

tile_index(board, cells) == tile_index_from(board, cells, 1, 0)

\* NTuple::num_states : 3 ^ num_cells
RECURSIVE num_states(_)
num_states(cells) == IF cells = <<>> THEN 1 ELSE 3 * num_states(Tail(cells))

\* NTupleNetwork::hand_index
hand_index(black_remain, gray_remain) ==
  MinOf({black_remain, 3}) * 2 + MinOf({gray_remain, 1})

\* A std::vector<float> is its size, the value it was filled with and the entries
\* written since; weights are counted in units of the initial weight
\* 0.5f / (tuples_.size() + 1).
initial_weight == 1

Table(size, fill) == [size |-> size, fill |-> fill, set |-> << >>]

Table_at(w, idx) == IF idx \in DOMAIN w.set THEN w.set[idx] ELSE w.fill

\* NTupleNetwork::NTupleNetwork()
NTupleNetwork_new ==
  [weights |-> [i \in DOMAIN base_patterns |->
                  Table(num_states(base_patterns[i]), initial_weight)],
   hand_weights |-> Table(8, initial_weight),
   tile_weights |-> [i \in DOMAIN base_patterns |->
                       Table(num_states(base_patterns[i]), initial_weight)]]

RECURSIVE SumOver(_, _)
SumOver(f, i) == IF i > Len(f) THEN 0 ELSE f[i] + SumOver(f, i + 1)

\* NTupleNetwork::evaluate
evaluate(network, state) ==
  LET canonical_sym == get_canonical_symmetry(state.board)
      canonical_board == transform_board(state.board, canonical_sym)
      current_player == state.to_move
      pieces == [i \in DOMAIN base_patterns |->
                   Table_at(network.weights[i],
                            to_index(canonical_board, base_patterns[i], current_player))]
      tiles == [i \in DOMAIN base_patterns |->
                  Table_at(network.tile_weights[i],
                           tile_index(canonical_board, base_patterns[i]))]
      inv == inventory(state, current_player)
      value == SumOver(pieces, 1) + SumOver(tiles, 1)
               + Table_at(network.hand_weights, hand_index(inv.black, inv.gray))
  IN  IF current_player = "White" THEN -value ELSE value

\* What NTupleNetwork::save writes for a network, which is what load reads: the
\* counts, and for every table its size and its floats
save(network) ==
  [opens |-> TRUE, num_tuples |-> Len(network.weights), weights |-> network.weights,
   hand_size |-> network.hand_weights.size, hand_weights |-> network.hand_weights,
   num_tile_tuples |-> Len(network.tile_weights),
   tile_weights |-> network.tile_weights]

\* NTupleNetwork::load : nothing is read from a file that cannot be opened or whose
\* num_tuples differs; every piece table is resized to the size in the file and
\* filled from it before hand_size is compared, and the hand table is filled before
\* num_tile_tuples is compared
load(network, file) ==
  IF ~file.opens THEN network
  ELSE IF file.num_tuples # Len(base_patterns) THEN network
  ELSE LET pieces == [network EXCEPT !.weights =
                        [i \in DOMAIN network.weights |-> file.weights[i]]]
           hand == [pieces EXCEPT !.hand_weights = file.hand_weights]
       IN  IF file.hand_size # network.hand_weights.size THEN pieces
           ELSE IF file.num_tile_tuples # Len(base_patterns) THEN hand
           ELSE [hand EXCEPT !.tile_weights =
                   [i \in DOMAIN network.tile_weights |-> file.tile_weights[i]]]

\* the indices NTupleNetwork::evaluate reads all lie inside their tables
reads_inside(network, state) ==
  LET canonical_board ==
        transform_board(state.board, get_canonical_symmetry(state.board))
      inv == inventory(state, state.to_move)
  IN  /\ \A i \in DOMAIN base_patterns :
           /\ to_index(canonical_board, base_patterns[i], state.to_move)
                < network.weights[i].size
           /\ tile_index(canonical_board, base_patterns[i])
                < network.tile_weights[i].size
      /\ hand_index(inv.black, inv.gray) < network.hand_weights.size

(***************************************************************************)
(* ai/tools/check_eval_random.cpp                                          *)
(***************************************************************************)
\* the swapped state of check_eval_random: occupants Black <-> White, tiles
\* Black <-> Gray, the inventories exchanged, the side to move flipped
swapped(s) ==
  [s EXCEPT
     !.board = [i \in DOMAIN s.board |->
                  [occupant |-> IF s.board[i].occupant = "Black" THEN "White"
                                ELSE IF s.board[i].occupant = "White" THEN "Black"
                                ELSE s.board[i].occupant,
                   tile |-> IF s.board[i].tile = "Black" THEN "Gray"
                            ELSE IF s.board[i].tile = "Gray" THEN "Black"
                            ELSE s.board[i].tile]],
     !.inv_black = s.inv_white,
     !.inv_white = s.inv_black,
     !.to_move = Opponent(s.to_move)]

(***************************************************************************)
(* ai/include/alphabeta.hpp, ai/src/alphabeta.cpp                          *)
(***************************************************************************)
\* std::numeric_limits<float>::infinity(), above every value a search returns
Infinity == 1000000000

\* 10000.0f in units of the initial weight 0.5f / 17
TerminalValue == 340000

MaxInt(a, b) == IF a >= b THEN a ELSE b

\* hash ^= v << shift for v in 0..3; a uint64_t is the set of its one bits
XorShift(hash, v, shift) ==
  LET bits == (IF v % 2 = 1 THEN {shift} ELSE {})
              \cup (IF v \div 2 = 1 THEN {shift + 1} ELSE {})
  IN  (hash \ bits) \cup (bits \ hash)

RECURSIVE AlphaBeta_hash_from(_, _, _)
AlphaBeta_hash_from(hash, board, i) ==
  IF i >= NumCells THEN hash
  ELSE LET hash1 == XorShift(XorShift(hash, PlayerValue(board[i].occupant), i),
                            TileValue(board[i].tile), 25 + i)
       IN  IF hash1 = hash1 THEN AlphaBeta_hash_from(hash1, board, i + 1) ELSE hash1

\* AlphaBeta::compute_hash
AlphaBeta_compute_hash(state) ==
  XorShift(AlphaBeta_hash_from({}, state.board, 0), PlayerValue(state.to_move), 50)

\* AlphaBeta::AlphaBeta() with set_use_transposition_table(use_tt) and
\* set_use_move_ordering(false)
\* call and earlier_cutoffs are not members of the class: call numbers the calls
\* of search on the engine, earlier_cutoffs counts the probes of the running call
\* that were answered by an entry stored during an earlier call
AlphaBeta_new(use_tt) ==
  [network |-> NTupleNetwork_new, tt |-> << >>, use_tt |-> use_tt,
   use_move_ordering |-> FALSE, call |-> 0, earlier_cutoffs |-> 0]

\* AlphaBeta::is_terminal : whether the state is terminal, and terminal_value
is_terminal(state) ==
  IF legal_moves(state) = << >>
  THEN [terminal |-> TRUE, value |-> -TerminalValue]
  ELSE IF is_win(state, "Black")
  THEN [terminal |-> TRUE,
        value |-> IF state.to_move = "Black" THEN TerminalValue ELSE -TerminalValue]
  ELSE IF is_win(state, "White")
  THEN [terminal |-> TRUE,
        value |-> IF state.to_move = "White" THEN TerminalValue ELSE -TerminalValue]
  ELSE [terminal |-> FALSE, value |-> 0]

\* AlphaBeta::order_moves : returns at once when use_move_ordering_ is false
order_moves(ab, moves, state) == moves

\* AlphaBeta::store_tt ; call, which TranspositionEntry does not have, is the
\* number of the call of search that stores the entry
store_tt(ab, hash, value, depth, flag, best_move) ==
  IF ~ab.use_tt THEN ab.tt
  ELSE (hash :> [hash |-> hash, value |-> value, depth |-> depth, flag |-> flag,
                 best_move |-> best_move, call |-> ab.call]) @@ ab.tt

\* AlphaBeta::probe_tt : TRUE when the entry under hash answers the probe
probe_tt(ab, hash, depth, alpha, beta) ==
  IF ~ab.use_tt \/ hash \notin DOMAIN ab.tt THEN FALSE
  ELSE LET entry == ab.tt[hash]
       IN  entry.depth >= depth
           /\ \/ entry.flag = "EXACT"
              \/ entry.flag = "LOWER_BOUND" /\ entry.value >= beta
              \/ entry.flag = "UPPER_BOUND" /\ entry.value <= alpha

\* best_value and local_best_move before the first move of a node is searched
NoBest == [value |-> -Infinity, move |-> MoveDefault]

\* AlphaBeta::alphabeta as one recursion.  With i = 0 it is the call on a node: the
\* value, the best move and the engine with its table.  With i > 0 it is the loop
\* over the moves of the node from move i on: ab carries the table as the earlier
\* moves left it, best is best_value with local_best_move.
RECURSIVE alphabeta_from(_, _, _, _, _, _, _, _)
alphabeta_from(ab, state, depth, alpha, beta, moves, i, best) ==
  IF i = 0
  THEN LET terminal == is_terminal(state)
           hash == AlphaBeta_compute_hash(state)
       IN  IF terminal.terminal
           THEN [value |-> terminal.value, best_move |-> MoveDefault, ab |-> ab]
           ELSE IF depth <= 0
           THEN [value |-> evaluate(ab.network, state), best_move |-> MoveDefault,
                 ab |-> ab]
           ELSE IF probe_tt(ab, hash, depth, alpha, beta)
           THEN [value |-> ab.tt[hash].value, best_move |-> ab.tt[hash].best_move,
                 ab |-> [ab EXCEPT !.earlier_cutoffs =
                                     IF ab.tt[hash].call < ab.call THEN @ + 1 ELSE @]]
           ELSE LET ordered == order_moves(ab, legal_moves(state), state)
                    done == alphabeta_from(ab, state, depth, alpha, beta, ordered, 1,
                                           [NoBest EXCEPT !.move = ordered[1]])
                    best_value == done.best.value
                    flag == IF best_value <= done.alpha THEN "UPPER_BOUND"
                            ELSE IF best_value >= beta THEN "LOWER_BOUND"
                            ELSE "EXACT"
                IN  [value |-> best_value, best_move |-> done.best.move,
                     ab |-> [done.ab EXCEPT !.tt =
                               store_tt(done.ab, hash, best_value, depth, flag,
                                        done.best.move)]]
  ELSE IF i > Len(moves) THEN [ab |-> ab, alpha |-> alpha, best |-> best]
  ELSE LET child == alphabeta_from(ab, apply_move(state, moves[i]), depth - 1,
                                   -beta, -alpha, << >>, 0, NoBest)
           value == -child.value
           best2 == IF value > best.value THEN [value |-> value, move |-> moves[i]]
                    ELSE best
           alpha2 == MaxInt(alpha, value)
       IN  IF alpha2 >= beta THEN [ab |-> child.ab, alpha |-> alpha2, best |-> best2]
           ELSE alphabeta_from(child.ab, state, depth, alpha2, beta, moves, i + 1, best2)

alphabeta(ab, state, depth, alpha, beta) ==
  alphabeta_from(ab, state, depth, alpha, beta, << >>, 0, NoBest)

\* AlphaBeta::iterative_deepening : depth d from 1 to max_depth on one table; the
\* value and the move of the last depth
RECURSIVE iterative_deepening_from(_, _, _, _, _)
iterative_deepening_from(ab, state, d, max_depth, last) ==
  IF d > max_depth THEN last
  ELSE LET run == alphabeta(ab, state, d, -Infinity, Infinity)
       IN  IF run.value = run.value
           THEN iterative_deepening_from(run.ab, state, d + 1, max_depth, run)
           ELSE last

iterative_deepening(ab, state, max_depth) ==
  iterative_deepening_from(ab, state, 1, max_depth,
                           [value |-> 0, best_move |-> MoveDefault, ab |-> ab])

\* time_ms, or CONTRAST_MOVE_TIME in milliseconds (0 when it is not set or not
\* positive) when time_ms <= 0
effective_time_ms(time_ms, move_time) == IF time_ms <= 0 THEN move_time ELSE time_ms

\* AlphaBeta::search : the statistics are reset, the table is left as it is, and
\* the effective time limit alone chooses between iterative_deepening_time and
\* iterative_deepening.  Both run alphabeta(state, d, -inf, +inf) for d = 1, 2, ...
\* to its end and return the move of the last round; the first goes on while the
\* clock is before the deadline at the head of a round, rounds being the number of
\* rounds so begun, the second up to max_depth.
search(ab, s, max_depth, time_ms, move_time, rounds) ==
  iterative_deepening([ab EXCEPT !.call = @ + 1, !.earlier_cutoffs = 0], s,
                      IF effective_time_ms(time_ms, move_time) > 0 THEN rounds
                      ELSE max_depth)

(***************************************************************************)
(* ai/include/mcts.hpp, ai/src/mcts.cpp                                    *)
(***************************************************************************)
\* The tree of a search is the sequence of its nodes in the order they were made;
\* a node is named by its place in it, the root is node 1 and has parent 0.
\* MCTSNode::MCTSNode.  total_value is kept as the terms added to it.
MCTSNode(s, m, p) ==
  [state |-> s, move |-> m, parent |-> p, children |-> << >>, visits |-> 0,
   total_value |-> << >>, is_terminal |-> FALSE, is_expanded |-> FALSE]

\* Move{0, 0}
MoveZero == [MoveDefault EXCEPT !.sx = 0, !.sy = 0]

\* MCTS::is_terminal
MCTS_is_terminal(state) ==
  legal_moves(state) = << >> \/ is_win(state, "Black") \/ is_win(state, "White")

\* MCTS::evaluate_terminal : sign * 1.0f
evaluate_terminal(state) ==
  [sign |-> IF legal_moves(state) = << >> THEN -1
            ELSE IF is_win(state, "Black")
                 THEN (IF state.to_move = "Black" THEN 1 ELSE -1)
            ELSE IF is_win(state, "White")
                 THEN (IF state.to_move = "White" THEN 1 ELSE -1)
            ELSE 0,
   tanh_of |-> "none"]

\* MCTS::simulate : the terminal value, or std::tanh(eval / 3.0f) as the term
\* sign * tanh(tanh_of / 3)
simulate(network, node) ==
  IF node.is_terminal THEN evaluate_terminal(node.state)
  ELSE [sign |-> 1, tanh_of |-> evaluate(network, node.state)]

\* value = -value
Negated(value) == [value EXCEPT !.sign = -@]

\* The nodes MCTS::select can return from node id.  A child that was never visited
\* has ucb1 infinity, and the first such child is taken; among children that were
\* all visited the greatest ucb1 is a comparison of floating-point square roots and
\* logarithms, which this model leaves open: any of them may be taken.
RECURSIVE select(_, _)
select(nodes, id) ==
  LET node == nodes[id]
      unvisited == {k \in DOMAIN node.children : nodes[node.children[k]].visits = 0}
  IN  IF node.is_terminal \/ ~node.is_expanded \/ node.children = << >> THEN {id}
      ELSE IF unvisited # {} THEN select(nodes, node.children[MinOf(unvisited)])
      ELSE UNION {select(nodes, node.children[k]) : k \in DOMAIN node.children}

\* variant of the test before expand(node) in MCTS::search: a node is expanded the
\* first time it is selected
should_expand_at_once(node) == ~node.is_terminal

\* if (node->visits > 0 && !node->is_terminal) in MCTS::search
should_expand(node) == node.visits > 0 /\ ~node.is_terminal

\* MCTS::expand : the tree with the children of node id appended
expand(nodes, id) ==
  LET node == nodes[id]
      moves == legal_moves(node.state)
      made == [k \in DOMAIN moves |->
                 [MCTSNode(apply_move(node.state, moves[k]), moves[k], id)
                    EXCEPT !.is_terminal =
                      MCTS_is_terminal(apply_move(node.state, moves[k]))]]
  IN  IF node.is_terminal \/ node.is_expanded THEN nodes
      ELSE IF moves = << >>
      THEN [nodes EXCEPT ![id].is_terminal = TRUE, ![id].is_expanded = TRUE]
      ELSE [nodes EXCEPT ![id].is_expanded = TRUE,
                         ![id].children = [k \in DOMAIN moves |-> Len(nodes) + k]]
           \o made

\* MCTS::backpropagate
RECURSIVE backpropagate(_, _, _)
backpropagate(nodes, id, value) ==
  IF id = 0 THEN nodes
  ELSE LET counted == [nodes EXCEPT ![id].visits = @ + 1,
                                    ![id].total_value = Append(@, value)]
       IN  IF counted[id].visits > 0
           THEN backpropagate(counted, nodes[id].parent, Negated(value))
           ELSE counted

\* one round of the loop of MCTS::search on the tree, when select returned node id
iteration(network, nodes, id) ==
  LET grown == IF should_expand(nodes[id]) THEN expand(nodes, id) ELSE nodes
      node == IF should_expand(nodes[id]) /\ grown[id].children # << >>
              THEN grown[id].children[1] ELSE id
  IN  backpropagate(grown, node, simulate(network, grown[node]))

\* the sum of the visits of the children of the root
RECURSIVE ChildVisits(_, _)
ChildVisits(nodes, k) ==
  IF k > Len(nodes[1].children) THEN 0
  ELSE nodes[nodes[1].children[k]].visits + ChildVisits(nodes, k + 1)

(***************************************************************************)
(* core/ driven as the policies of ai/ drive it: a move is picked from     *)
(* legal_moves and applied, starting from the initial position.            *)
(***************************************************************************)
MaxPlies == 3             \* moves played in a row

\* the picks are taken among the moves of the pieces on these files whose
\* placement, if any, is on the vacated cell or on one of these cells
PlayFiles == {1, 2}
PlayTiles == {<<2, 2>>}

\* a game of play_game: the plies left, and what the picks are limited to
RulesClients ==
  [plies |-> MaxPlies, files |-> PlayFiles, tiles |-> PlayTiles, straight |-> FALSE,
   policies |-> {"RandomPolicy"}, line |-> <<>>]

RulesInit == Start(RulesClients)

\* the picks a game allows among legal: the move of its opening line while the line
\* lasts, then the moves of the pieces on its files, kept to their file and without
\* placement in a straight game
Allowed(legal, k, clients) ==
  IF Len(played) <= Len(clients.line) THEN legal[k] = clients.line[Len(played)]
  ELSE /\ legal[k].sx \in clients.files
       /\ clients.straight => legal[k].dx = legal[k].sx /\ ~legal[k].place_tile
       /\ legal[k].place_tile =>
            \/ <<legal[k].tx, legal[k].ty>> \in clients.tiles
            \/ legal[k].tx = legal[k].sx /\ legal[k].ty = legal[k].sy

\* variant: the distribution drawn over 0..moves.size instead of 0..moves.size - 1
Picks_through_size(legal, clients) ==
  {k \in 1..(Len(legal) + 1) : k <= Len(legal) => Allowed(legal, k, clients)}

\* the indices RandomPolicy::pick draws from
Picks(legal, clients) == {k \in 1..Len(legal) : Allowed(legal, k, clients)}

\* the moves a policy may return in state s: RandomPolicy any of the picks, the
\* rule-based policies the one move they compute
PolicyMoves(policy, s, legal, clients) ==
  IF policy = "RandomPolicy" THEN {MoveList_at(legal, k) : k \in Picks(legal, clients)}
  ELSE IF policy = "RuleBasedPolicy" THEN {RuleBasedPolicy_pick(s)}
  ELSE {RuleBasedPolicy2_pick(s)}

\* one round of the loop of play_game: no side has won and the mover has a move; one of
\* the policies of the game picks a move, which is applied
Play ==
  /\ budget.plies > 0
  /\ ~is_win(g_state, "Black")
  /\ ~is_win(g_state, "White")
  /\ LET legal == legal_moves(g_state)
     IN  /\ legal # <<>>
         /\ \E policy \in budget.policies :
              \E move \in PolicyMoves(policy, g_state, legal, budget) :
                /\ g_state' = apply_move(g_state, move)
                /\ last_op' = [op |-> "Play", by |-> g_state.to_move, move |-> move,
                               policy |-> policy]
  /\ played' = Append(played, compute_hash(g_state'))
  /\ budget' = [budget EXCEPT !.plies = @ - 1]
  /\ UNCHANGED <<lockVars, engine>>
  /\ UNCHANGED <<g_last_move, g_status, g_game_id, g_last_received_move_id, g_stats,
                 g_clients, session, pc, local, sent, nApplied, last_accept, viewSeq>>

RulesNext == Play

RulesSpec == RulesInit /\ [][RulesNext]_vars

\* games long enough to come back to a position four times: one piece a side, walking
\* its file
DrawPlies == 13
DrawFiles == {2}

DrawClients ==
  [plies |-> DrawPlies, files |-> DrawFiles, tiles |-> {}, straight |-> TRUE,
   policies |-> {"RandomPolicy"}, line |-> <<>>]

DrawInit == Start(DrawClients)

DrawSpec == DrawInit /\ [][RulesNext]_vars

\* games between the three simple policies, any of them moving at any ply
PolicyPlies == 5
PolicyFiles == {2}

PolicyClients ==
  [plies |-> PolicyPlies, files |-> PolicyFiles, tiles |-> {}, straight |-> TRUE,
   policies |-> {"RandomPolicy", "RuleBasedPolicy", "RuleBasedPolicy2"}, line |-> <<>>]

PolicyInit == Start(PolicyClients)

PolicySpec == PolicyInit /\ [][RulesNext]_vars

(***************************************************************************)
(* AlphaBeta::search on the positions of a game: both sides spend their    *)
(* tiles in the opening, then the game goes on and the engine is asked.    *)
(***************************************************************************)
PlacingMove(sx, sy, dx, dy, tx, ty, tile) ==
  [sx |-> sx, sy |-> sy, dx |-> dx, dy |-> dy,
   place_tile |-> TRUE, tx |-> tx, ty |-> ty, tile |-> tile]

\* eight plies after which neither side has a tile left
SearchOpening ==
  << PlacingMove(2, 0, 2, 1, 1, 1, "Black"), PlacingMove(4, 4, 4, 3, 4, 4, "Black"),
     PlacingMove(2, 1, 2, 2, 4, 2, "Black"), PlacingMove(0, 4, 0, 3, 3, 1, "Gray"),
     PlacingMove(2, 2, 1, 2, 1, 3, "Gray"), PlacingMove(0, 3, 0, 2, 2, 2, "Black"),
     PlacingMove(0, 0, 0, 1, 0, 4, "Black"), PlacingMove(2, 4, 4, 4, 3, 3, "Black") >>

SearchPlies == 10         \* the opening and two more plies
SearchFiles == {1, 2}
MaxDepth == 3             \* greatest max_depth asked of AlphaBeta::search

SearchClients ==
  [plies |-> SearchPlies, files |-> SearchFiles, tiles |-> {}, straight |-> FALSE,
   policies |-> {"RandomPolicy"}, line |-> SearchOpening]

SearchInit == Start(SearchClients)

\* AlphaBeta::search(g_state, max_depth) by a fresh engine with the transposition
\* table on, and by a fresh engine with it off; root is what the table of the first
\* holds for g_state when the search returns
AlphaBetaSearch(max_depth) ==
  /\ Len(played) > Len(budget.line)
  /\ engine = NoRun
  /\ \E done \in {[use_tt \in BOOLEAN |->
                      search(AlphaBeta_new(use_tt), g_state, max_depth, 0, 0, 0)]} :
       \E hash \in {AlphaBeta_compute_hash(g_state)} :
         engine' = [run |-> "AlphaBeta::search", max_depth |-> max_depth,
                    value |-> [use_tt \in BOOLEAN |-> done[use_tt].value],
                    best_move |-> done[TRUE].best_move,
                    root |-> {done[TRUE].ab.tt[h] : h \in DOMAIN done[TRUE].ab.tt \cap {hash}},
                    tt |-> done[TRUE].ab.tt]
  /\ last_op' = [op |-> "Search", by |-> g_state.to_move]
  /\ UNCHANGED <<lockVars, played>>
  /\ UNCHANGED <<g_state, g_last_move, g_status, g_game_id, g_last_received_move_id,
                 g_stats, g_clients, session, pc, local, sent, nApplied, budget,
                 last_accept, viewSeq>>

\* the engine that has searched once, its table as the first call left it, is
\* asked again: the next search of a client that keeps one AlphaBeta for the game
SearchAgain(max_depth) ==
  /\ engine # NoRun
  /\ engine.run = "AlphaBeta::search"
  /\ \E done \in {search([AlphaBeta_new(TRUE) EXCEPT !.tt = engine.tt, !.call = 1],
                           g_state, max_depth, -1, 0, 0)} :
         engine' = [run |-> "AlphaBeta::search again", max_depth |-> max_depth,
                    first_depth |-> engine.max_depth,
                    value |-> done.value, best_move |-> done.best_move,
                    earlier_cutoffs |-> done.ab.earlier_cutoffs]
  /\ last_op' = [op |-> "SearchAgain", by |-> g_state.to_move]
  /\ UNCHANGED <<lockVars, played>>
  /\ UNCHANGED <<g_state, g_last_move, g_status, g_game_id, g_last_received_move_id,
                 g_stats, g_clients, session, pc, local, sent, nApplied, budget,
                 last_accept, viewSeq>>

SearchNext == Play \/ \E max_depth \in 1..MaxDepth : AlphaBetaSearch(max_depth)

\* a game in which the engine is asked once, to one of the two greatest depths,
\* and, there or a move later, again to any depth
AgainPlies == 9           \* the opening and one more ply
AgainFiles == {1, 2}

AgainClients ==
  [plies |-> AgainPlies, files |-> AgainFiles, tiles |-> {}, straight |-> FALSE,
   policies |-> {"RandomPolicy"}, line |-> SearchOpening]

AgainInit == Start(AgainClients)

\* the arguments and the surroundings of a call of search that is to go by time
MaxRounds == 2            \* rounds the clock allows to begin
TimeArgs == {-1, 100}     \* time_ms: the default argument, 100 ms
MoveTimes == {0, 100}     \* CONTRAST_MOVE_TIME in ms, 0 when it is not set

\* AlphaBeta::search(g_state, -1, time_ms) by a fresh engine, as
\* measure_alphabeta_depth calls it, and with time_ms left at its default
AlphaBetaSearchTime(time_ms, move_time, rounds) ==
  /\ Len(played) > Len(budget.line)
  /\ engine = NoRun
  /\ effective_time_ms(time_ms, move_time) <= 0 => rounds = 0
  /\ \E done \in {search(AlphaBeta_new(TRUE), g_state, -1, time_ms, move_time,
                           rounds)} :
         engine' = [run |-> "AlphaBeta::search by time", max_depth |-> -1,
                    time_ms |-> time_ms, move_time |-> move_time, rounds |-> rounds,
                    state |-> g_state, value |-> done.value,
                    best_move |-> done.best_move]
  /\ last_op' = [op |-> "SearchTime", by |-> g_state.to_move]
  /\ UNCHANGED <<lockVars, played>>
  /\ UNCHANGED <<g_state, g_last_move, g_status, g_game_id, g_last_received_move_id,
                 g_stats, g_clients, session, pc, local, sent, nApplied, budget,
                 last_accept, viewSeq>>

\* a game in which the engine is asked with a negative max_depth
TimePlies == 9            \* the opening and one more ply
TimeFiles == {1, 2}

TimeClients ==
  [plies |-> TimePlies, files |-> TimeFiles, tiles |-> {}, straight |-> FALSE,
   policies |-> {"RandomPolicy"}, line |-> SearchOpening]

TimeInit == Start(TimeClients)

TimeNext ==
  \/ Play
  \/ \E time_ms \in TimeArgs : \E move_time \in MoveTimes : \E rounds \in 0..MaxRounds :
       AlphaBetaSearchTime(time_ms, move_time, rounds)

TimeSpec == TimeInit /\ [][TimeNext]_vars

AgainNext ==
  \/ Play
  \/ \E max_depth \in (MaxDepth - 1)..MaxDepth : AlphaBetaSearch(max_depth)
  \/ \E max_depth \in 1..MaxDepth : SearchAgain(max_depth)

AgainSpec == AgainInit /\ [][AgainNext]_vars

SearchSpec == SearchInit /\ [][SearchNext]_vars

(***************************************************************************)
(* MCTS::search on the position after the opening, one round of its loop   *)
(* at a time.                                                              *)
(***************************************************************************)
MaxIterations == 15       \* greatest number of iterations asked of MCTS::search

MctsClients ==
  [plies |-> Len(SearchOpening), files |-> {}, tiles |-> {}, straight |-> FALSE,
   policies |-> {"RandomPolicy"}, line |-> SearchOpening]

MctsInit == Start(MctsClients)

\* MCTS::search with a default-constructed network makes the root
MctsRoot ==
  /\ Len(played) > Len(budget.line)
  /\ engine = NoRun
  /\ engine' = [run |-> "MCTS::search", network |-> NTupleNetwork_new,
                nodes |-> << MCTSNode(g_state, MoveZero, 0) >>, i |-> 0]
  /\ last_op' = [op |-> "MctsRoot", by |-> g_state.to_move]
  /\ UNCHANGED <<lockVars, played>>
  /\ UNCHANGED <<g_state, g_last_move, g_status, g_game_id, g_last_received_move_id,
                 g_stats, g_clients, session, pc, local, sent, nApplied, budget,
                 last_accept, viewSeq>>

\* one round of the loop: select, expand, simulate, backpropagate
MctsIterate ==
  /\ engine.run = "MCTS::search"
  /\ engine.i < MaxIterations
  /\ \E id \in select(engine.nodes, 1) :
       engine' = [engine EXCEPT !.nodes = iteration(engine.network, engine.nodes, id),
                                !.i = @ + 1]
  /\ last_op' = [op |-> "MctsIterate", by |-> g_state.to_move]
  /\ UNCHANGED <<lockVars, played>>
  /\ UNCHANGED <<g_state, g_last_move, g_status, g_game_id, g_last_received_move_id,
                 g_stats, g_clients, session, pc, local, sent, nApplied, budget,
                 last_accept, viewSeq>>

MctsNext == Play \/ MctsRoot \/ MctsIterate

MctsSpec == MctsInit /\ [][MctsNext]_vars

(***************************************************************************)
(* An NTupleNetwork beside a game: it loads a weight file and evaluates    *)
(* the positions of the game.                                              *)
(***************************************************************************)
EvalPlies == 2
EvalFiles == {1, 3}
EvalTiles == {<<2, 2>>}

EvalClients ==
  [plies |-> EvalPlies, files |-> EvalFiles, tiles |-> EvalTiles, straight |-> FALSE,
   policies |-> {"RandomPolicy"}, line |-> <<>>]

EvalInit == Start(EvalClients)

\* a network whose tables are all filled with weight
Filled(weight) ==
  [weights |-> [i \in DOMAIN base_patterns |->
                  Table(num_states(base_patterns[i]), weight)],
   hand_weights |-> Table(8, weight),
   tile_weights |-> [i \in DOMAIN base_patterns |->
                       Table(num_states(base_patterns[i]), weight)]]

\* the weight files: one that does not open; the file of a fresh network; the file
\* of a network in which the second tile pattern has learnt a black tile on c3; and
\* files of the right length whose counts or sizes are not those of the network in
\* memory
WeightFiles ==
  LET other == save(Filled(2))
  IN  { [opens |-> FALSE],
        save(NTupleNetwork_new),
        save([NTupleNetwork_new EXCEPT !.tile_weights[2].set = (9 :> 2)]),
        [other EXCEPT !.num_tuples = 15, !.weights = SubSeq(@, 1, 15)],
        [other EXCEPT !.weights[1] = Table(num_states(base_patterns[1]) \div 3, 2)],
        [other EXCEPT !.hand_size = 4, !.hand_weights = Table(4, 2)],
        [other EXCEPT !.num_tile_tuples = 15, !.tile_weights = SubSeq(@, 1, 15)],
        [other EXCEPT !.tile_weights[16] =
                         Table(num_states(base_patterns[16]) \div 3, 2)] }

\* NTupleNetwork net; net.load(file)
Load(file) ==
  /\ engine = NoRun
  /\ engine' = [run |-> "NTupleNetwork", file |-> file,
                before |-> NTupleNetwork_new,
                network |-> load(NTupleNetwork_new, file)]
  /\ last_op' = [op |-> "Load", by |-> g_state.to_move]
  /\ UNCHANGED <<lockVars, played>>
  /\ UNCHANGED <<g_state, g_last_move, g_status, g_game_id, g_last_received_move_id,
                 g_stats, g_clients, session, pc, local, sent, nApplied, budget,
                 last_accept, viewSeq>>

\* net.evaluate on the position and on its swapped state, as check_eval_random does;
\* the canonical symmetry and board are those evaluate works on
Evaluate ==
  /\ engine.run = "NTupleNetwork"
  /\ reads_inside(engine.network, g_state)
  /\ reads_inside(engine.network, swapped(g_state))
  /\ engine' = [run |-> "NTupleNetwork::evaluate", file |-> engine.file,
                network |-> engine.network, board |-> g_state.board,
                canonical_sym |-> get_canonical_symmetry(g_state.board),
                canonical_board |->
                  transform_board(g_state.board, get_canonical_symmetry(g_state.board)),
                value |-> evaluate(engine.network, g_state),
                v_swapped |-> evaluate(engine.network, swapped(g_state))]
  /\ last_op' = [op |-> "Evaluate", by |-> g_state.to_move]
  /\ UNCHANGED <<lockVars, played>>
  /\ UNCHANGED <<g_state, g_last_move, g_status, g_game_id, g_last_received_move_id,
                 g_stats, g_clients, session, pc, local, sent, nApplied, budget,
                 last_accept, viewSeq>>

EvalNext == Play \/ (\E file \in WeightFiles : Load(file)) \/ Evaluate

EvalSpec == EvalInit /\ [][EvalNext]_vars

(***************************************************************************)
(* client/main.cpp : a picked move on its way to the server's move list    *)
(***************************************************************************)
\* convert_core_move
convert_core_move(move) ==
  [origin |-> xy_to_coord(move.sx, move.sy),
   target |-> xy_to_coord(move.dx, move.dy),
   tile |-> IF move.place_tile
            THEN [skip |-> FALSE, coord |-> xy_to_coord(move.tx, move.ty),
                  color |-> tile_to_char(move.tile)]
            ELSE TilePlacement_none]

WireClients ==
  [plies |-> Len(SearchOpening), files |-> {}, tiles |-> {}, straight |-> FALSE,
   policies |-> {"RandomPolicy"}, line |-> SearchOpening]

WireInit == Start(WireClients)

\* the client formats the k-th legal move of the position; the server parses the
\* text, converts it and looks it up among the legal moves
Submit(k) ==
  /\ engine = NoRun
  /\ k \in 1..Len(legal_moves(g_state))
  /\ LET legal == legal_moves(g_state)
         proto == convert_core_move(legal[k])
         text == format_move(proto)
         parsed == parse_move(text)
         desired == IF parsed.ok THEN convert_move(parsed.move) ELSE MoveDefault
     IN  engine' = [run |-> "MOVE", mv |-> legal[k], proto |-> proto, text |-> text,
                    parsed |-> parsed, desired |-> desired,
                    it |-> IF parsed.ok THEN find_legal(legal, desired) ELSE 0,
                    legal |-> legal]
  /\ last_op' = [op |-> "Submit", by |-> g_state.to_move]
  /\ UNCHANGED <<lockVars, played>>
  /\ UNCHANGED <<g_state, g_last_move, g_status, g_game_id, g_last_received_move_id,
                 g_stats, g_clients, session, pc, local, sent, nApplied, budget,
                 last_accept, viewSeq>>

WireNext == Play \/ \E k \in 1..MAX_MOVES : Submit(k)

WireSpec == WireInit /\ [][WireNext]_vars

C2_WrongTurnResync ==
  [][\A s \in Sessions :
       (/\ pc[s] = "move_main"
        /\ pc'[s] # "move_main"
        /\ role_to_player(session[s].role) # g_state.to_move) =>
         /\ Len(sent'[s]) = 2
         /\ sent'[s][1] = TurnError(g_state.to_move)
         /\ sent'[s][2].type = "STATE"]_vars

C5_IllegalMoveResync ==
  [][\A s \in Sessions :
       (/\ pc[s] = "move_main"
        /\ pc'[s] # "move_main"
        /\ role_to_player(session[s].role) = g_state.to_move
        /\ local[s].move.move_id = 0
             \/ local[s].move.move_id > g_last_received_move_id[session[s].role]
        /\ LET legal == legal_moves(g_state)
           IN  \A k \in 1..Len(legal) : legal[k] # convert_move(local[s].move)) =>
         /\ gameVars' = gameVars
         /\ s \notin budget.down =>
              /\ Len(sent'[s]) = 2
              /\ sent'[s][1].type = "ERROR"
              /\ sent'[s][1] = IllegalError(IllegalReason(g_state, g_state.to_move,
                                                          convert_move(local[s].move)))
              /\ Len(sent'[s][1].text) > 2
              /\ sent'[s][2] = StateMsg(build_snapshot(g_state, g_status, g_last_move,
                                                       g_game_id))]_vars

C5_Witness ==
  \E s \in Sessions :
    /\ last_op = Op("MoveIllegal", s)
    /\ Len(sent[s]) = 2
    /\ sent[s][2].snapshot.turn = Symbol(session[s].role)

\* C6: the position is changed by a MOVE only when the sender's role is the side
\* to move and the converted move is a member of legal_moves; the new position
\* is that member applied, the side to move is the other player, last_move is
\* the move as formatted and a non-zero move_id is stored for the role.
C6_OnlyLegalMovesApply ==
  [][(g_state'.board # g_state.board /\ g_state' # GameState_reset) =>
       \E s \in Sessions :
         /\ pc[s] = "move_main"
         /\ pc'[s] = "move_bcast"
         /\ role_to_player(session[s].role) = g_state.to_move
         /\ LET legal == legal_moves(g_state)
            IN  \E k \in 1..Len(legal) :
                  /\ legal[k] = convert_move(local[s].move)
                  /\ g_state' = apply_move(g_state, legal[k])
         /\ g_state'.to_move = Opponent(g_state.to_move)
         /\ g_last_move' = format_move(local[s].move)
         /\ local[s].move.move_id # 0 =>
              g_last_received_move_id'[session[s].role] = local[s].move.move_id]_vars

C6_Witness ==
  \E s \in Sessions :
    /\ last_op = Op("MoveAccept", s)
    /\ local[s].move.tile.skip = FALSE
    /\ local[s].move.move_id # 0
    /\ g_last_received_move_id[session[s].role] = local[s].move.move_id

\* C7: no session is sent the snapshot of an accepted move after it was sent the
\* snapshot of a later accepted move.
C7_SnapshotsInApplyOrder ==
  [][\A s \in Sessions : viewSeq'[s] >= viewSeq[s]]_vars

\* C8: the automatic rematch leaves game_id one above the game_id of the game
\* whose end started it, and broadcasts the snapshot of the initial position
\* under that game_id.
C8_RematchBumpsOnce ==
  [][\A s \in Sessions :
       (pc[s] = "rematch" /\ pc'[s] = "recv") =>
         /\ g_game_id' = local[s].snapshot.game_id + 1
         /\ \A t \in BroadcastTargets(g_clients, session) :
              sent'[t] = <<StateMsg(build_snapshot(GameState_reset, "ongoing", <<>>,
                                                   local[s].snapshot.game_id + 1))>>]_vars

(***************************************************************************)
(* Properties of the resets                                                *)
(***************************************************************************)
\* C9 (as stated): game_id never decreases and grows whenever the position is
\* put back to the initial one.
C9_EveryResetBumps ==
  [][/\ g_game_id' >= g_game_id
     /\ (g_state # GameState_reset /\ g_state' = GameState_reset) =>
          g_game_id' > g_game_id]_vars

\* C9: game_id never decreases; reset_game, run once both players are ready and
\* by the automatic rematch, raises it by one; the reset that follows the
\* disconnect of the last player puts the initial position back and keeps it.
C9_GameIdMonotone ==
  [][/\ g_game_id' >= g_game_id
     /\ \A s \in Sessions :
          /\ (pc[s] \in {"ready_reset", "rematch"} /\ pc'[s] # pc[s]) =>
               g_game_id' = g_game_id + 1 /\ g_state' = GameState_reset
          /\ (pc[s] = "soft_reset" /\ pc'[s] # pc[s]) =>
               g_game_id' = g_game_id /\ g_state' = GameState_reset]_vars

C9_Witness ==
  \E s \in Sessions :
    /\ last_op = Op("SoftReset", s)
    /\ nApplied > 0
    /\ g_state = GameState_reset
    /\ g_game_id = 1

C11_ReadyStartsFreshGame ==
  [][\A s \in Sessions :
       /\ (pc[s] = "ready_reset" /\ pc'[s] # pc[s]) =>
            /\ all_players_ready(g_clients, session)
            /\ g_state' = GameState_reset
            /\ g_game_id' = g_game_id + 1
            /\ \A i \in 1..Len(g_clients) : ~session'[g_clients[i]].ready
       /\ (pc[s] = "ready_bcast" /\ pc'[s] # pc[s]) =>
            \A t \in BroadcastTargets(g_clients, session) :
              sent'[t] = <<StateMsg(local[s].snapshot)>>]_vars

\* C12: at most one active session holds X and at most one holds O, and a ROLE
\* command gives X or O to its sender only if no other active session holds
\* that role when the command is handled.
C12_OneHolderPerRole ==
  /\ [](\A r \in {"X", "O"} :
          Cardinality({s \in Sessions : session[s].active /\ session[s].role = r}) <= 1)
  /\ [][\A s \in Sessions :
          (pc[s] = "recv" /\ pc'[s] = "role_state" /\ session'[s].role \in {"X", "O"}) =>
            ~\E t \in Sessions \ {s} :
               session[t].active /\ session[t].role = session'[s].role]_vars

\* a session has taken over the role of a session that disconnected
C12_Witness ==
  \E s, t \in Sessions :
    /\ last_op = Op("RecvRole", t)
    /\ ~session[s].active
    /\ session[t].active
    /\ session[s].role = session[t].role
    /\ session[t].role \in {"X", "O"}

\* C13: no thread waits for, or takes, g_game_mutex while it holds
\* g_clients_mutex, no thread waits for a mutex it holds itself, and no two
\* threads wait for a mutex the other one holds.
C13_GameMutexFirst ==
  LET waits(t, u) == NextOp(t).op = "lock" /\ Mutex(NextOp(t).m) = u
  IN  \A t \in Threads :
        /\ NextOp(t) = LockOp("game") => g_clients_mutex # t
        /\ ~waits(t, t)
        /\ \A u \in Threads \ {t} : ~(waits(t, u) /\ waits(u, t))

\* a thread holds both mutexes while another thread waits for the registry
C13_Witness ==
  \E t, u \in Threads :
    /\ t # u
    /\ g_game_mutex = t
    /\ g_clients_mutex = t
    /\ NextOp(u) = LockOp("clients")

\* C14: no thread is about to run the send loop of broadcast_state while it
\* holds g_game_mutex.
C14_NoBroadcastUnderGameMutex ==
  \A t \in Threads : NextOp(t) = SendEach => g_game_mutex # t

\* C15: the worker of a session whose peer drains its socket is never held up by
\* a peer that does not: it is not inside a send to a stalled peer, and it does
\* not wait for a mutex whose holder is held up in that way.
C15_SlowPeerDelaysOnlyItself ==
  LET blocked(t) == NextOp(t).op = "send" /\ SendTargets(t) \cap budget.stalled # {}
      waits(t, u) == NextOp(t).op = "lock" /\ Mutex(NextOp(t).m) = u
      held_up(t) ==
        \/ blocked(t)
        \/ \E u \in Threads :
             /\ waits(t, u)
             /\ blocked(u) \/ \E v \in Threads : waits(u, v) /\ blocked(v)
  IN  \A t \in Sessions \ budget.stalled : ~held_up(t)

\* C16: in a broadcast, every active registered session whose send fails is marked
\* inactive and erased from the registry and gets nothing; every other active
\* registered session is sent the same STATE snapshot, stays active and
\* registered, and keeps its role and its flags (the ready flag is cleared only
\* by the reset_game that precedes the broadcast of the automatic rematch).
C16_FailedSendDropsOnlyThatPeer ==
  [][(/\ last_op'.op \in {"StaleResync", "MoveDuplicate", "MoveIllegal",
                          "MoveBroadcast", "AutoReset", "ReadyBroadcast"}
      /\ pc'[last_op'.by] # "closed") =>
       LET registered(c, t) == \E i \in 1..Len(c) : c[i] = t
           targets == {t \in Sessions : session[t].active /\ registered(g_clients, t)}
           failed == targets \cap budget.down
           others == targets \ failed
           last(q) == q[Len(q)]
       IN  /\ \A f \in failed :
                /\ ~session'[f].active
                /\ ~registered(g_clients', f)
                /\ sent'[f] = <<>>
           /\ \A t \in others :
                /\ Len(sent'[t]) >= 1
                /\ last(sent'[t]).type = "STATE"
                /\ \A u \in others : last(sent'[u]) = last(sent'[t])
                /\ session'[t].active
                /\ registered(g_clients', t)
                /\ session'[t].role = session[t].role
                /\ session'[t].multi_game = session[t].multi_game
                /\ session'[t].ready =
                     IF last_op'.op = "AutoReset" THEN FALSE ELSE session[t].ready]_vars

\* a move was broadcast: the session whose connection had broken is dropped while
\* its worker still waits for input, and the other session got the snapshot
C16_Witness ==
  \E f, t \in Sessions :
    /\ last_op.op = "MoveBroadcast"
    /\ f \in budget.down
    /\ ~session[f].active
    /\ pc[f] = "recv"
    /\ \A i \in 1..Len(g_clients) : g_clients[i] # f
    /\ session[t].active
    /\ sent[t] = <<StateMsg(build_snapshot(g_state, g_status, g_last_move, g_game_id))>>

\* C17: the worker of a disconnected session resets the game exactly when no
\* active session holds X or O any more; the reset puts the initial position
\* back, clears last_move, sets the status to ongoing and keeps game_id.
C17_SoftResetKeepsGameId ==
  [][\A s \in Sessions :
       /\ (pc[s] = "players_check" /\ pc'[s] # pc[s]) =>
            (pc'[s] = "soft_reset" <=>
               \A t \in Sessions :
                 (session[t].active /\ \E i \in 1..Len(g_clients) : g_clients[i] = t)
                   => session[t].role \notin {"X", "O"})
       /\ (pc[s] = "soft_reset" /\ pc'[s] # pc[s]) =>
            /\ g_state' = GameState_reset
            /\ g_last_move' = <<>>
            /\ g_status' = "ongoing"
            /\ g_game_id' = g_game_id]_vars

C17_Witness ==
  \E s \in Sessions :
    /\ last_op = Op("SoftReset", s)
    /\ nApplied >= 2
    /\ g_last_move = <<>>
    /\ g_status = "ongoing"
    /\ \A t \in Sessions : ~session[t].active

(***************************************************************************)
(* Properties of the rules as the server applies them                      *)
(***************************************************************************)
\* C18: when an applied move leaves a piece of the mover on the opponent's home
\* row (y = 4 for Black, y = 0 for White), the status of the snapshot built for
\* it is the mover's win: X_win for Black, O_win for White.
C18_HomeRowWins ==
  [][\A s \in Sessions :
       (pc[s] = "move_main" /\ pc'[s] = "move_bcast") =>
         LET mover == g_state.to_move
             row == IF mover = "Black" THEN 4 ELSE 0
         IN  (\E x \in 0..4 : g_state'.board[row * 5 + x].occupant = mover) =>
               /\ local'[s].snapshot.status = IF mover = "Black" THEN "X_win" ELSE "O_win"
               /\ g_status' = local'[s].snapshot.status]_vars

\* Black has moved from (2,3) to the empty (2,4)
C18_Witness ==
  \E s \in Sessions :
    /\ last_op = Op("MoveAccept", s)
    /\ convert_move(local[s].move).sx = 2 /\ convert_move(local[s].move).sy = 3
    /\ convert_move(local[s].move).dx = 2 /\ convert_move(local[s].move).dy = 4
    /\ g_state.board[4 * 5 + 2].occupant = "Black"
    /\ g_status = "X_win"

C20_PlacementVariants ==
  LET legal == legal_moves(g_state)
      emitted == {legal[k] : k \in 1..Len(legal)}
      bases == base_moves(g_state)
      stock == IF g_state.to_move = "Black" THEN g_state.inv_black ELSE g_state.inv_white
      has(color) == IF color = "Black" THEN stock.black > 0 ELSE stock.gray > 0
  IN  /\ \A j \in 1..Len(bases) :
           /\ bases[j] \in emitted
           /\ \A color \in {"Black", "Gray"} : \A c \in 0..24 :
                ([bases[j] EXCEPT !.place_tile = TRUE, !.tx = c % 5, !.ty = c \div 5,
                                  !.tile = color] \in emitted)
                  <=> /\ has(color)
                      /\ g_state.board[c].tile = "None"
                      /\ ~(c % 5 = bases[j].dx /\ c \div 5 = bases[j].dy)
                      /\ \/ g_state.board[c].occupant = "None"
                         \/ c % 5 = bases[j].sx /\ c \div 5 = bases[j].sy
      /\ \A m \in emitted :
           m.place_tile =>
             /\ m.tile \in {"Black", "Gray"}
             /\ \E j \in 1..Len(bases) :
                  m = [bases[j] EXCEPT !.place_tile = TRUE, !.tx = m.tx, !.ty = m.ty,
                                       !.tile = m.tile]

\* the side to move has used up its gray tile, tiles lie on the board, and a
\* placement on the vacated cell is among the moves
C20_Witness ==
  /\ last_op.op = "Play"
  /\ g_state.to_move = "Black"
  /\ g_state.inv_black.gray = 0
  /\ g_state.inv_black.black > 0
  /\ \E c \in 0..24 : g_state.board[c].tile # "None" /\ g_state.board[c].occupant = "None"
  /\ LET legal == legal_moves(g_state)
     IN  \E k \in 1..Len(legal) :
           /\ legal[k].place_tile
           /\ legal[k].tx = legal[k].sx /\ legal[k].ty = legal[k].sy

(***************************************************************************)
(* Properties of the repetition history                                    *)
(***************************************************************************)
\* C21: the history holds, for every hash, the number of times apply_move has produced a
\* position of that hash, the initial position counting once: every apply_move adds
\* exactly one to the count of the position it produces and changes no other count,
\* and is_draw is true exactly when the current position has been produced at least
\* kRepetitionDrawCount = 4 times
C21_DrawAtFourthVisit ==
  /\ [](LET h == compute_hash(g_state)
            visits == Cardinality({i \in DOMAIN played : played[i] = h})
        IN  /\ is_draw(g_state) <=> visits >= 4
            /\ h \in DOMAIN g_state.history
            /\ g_state.history[h] = visits
            /\ Len(played) = 1 => g_state.history = (h :> 1))
  /\ [][g_state' # g_state =>
          LET h == compute_hash(g_state')
              before(k) == IF k \in DOMAIN g_state.history THEN g_state.history[k] ELSE 0
          IN  /\ DOMAIN g_state'.history = DOMAIN g_state.history \cup {h}
              /\ \A k \in DOMAIN g_state'.history :
                    g_state'.history[k] = before(k) + (IF k = h THEN 1 ELSE 0)]_vars

\* a game has come to the same position for the fourth time, which is a draw
C21_Witness ==
  /\ last_op.op = "Play"
  /\ Cardinality({i \in DOMAIN played : played[i] = played[Len(played)]}) = 4
  /\ is_draw(g_state)

C23_TableKeepsRootValue ==
  engine.run = "AlphaBeta::search" => engine.value[TRUE] = engine.value[FALSE]

\* C24 as stated: after MCTS::search has run N iterations from a root that has a
\* legal move, the visit counts of the root's children add up to N.
C24_ChildVisitsAreIterations ==
  engine.run = "MCTS::search" /\ legal_moves(engine.nodes[1].state) # << >>
    => ChildVisits(engine.nodes, 1) = engine.i

\* C24, amended: the first iteration visits the root alone, which has no children
\* yet; every later iteration adds one visit to exactly one child of the root.  After
\* N >= 1 iterations the root has N visits and its children N - 1 in all.
C24_ChildVisitsOneBehind ==
  /\ [](engine.run = "MCTS::search" /\ legal_moves(engine.nodes[1].state) # << >>
          => /\ engine.nodes[1].visits = engine.i
             /\ ChildVisits(engine.nodes, 1)
                  = IF engine.i = 0 THEN 0 ELSE engine.i - 1)
  /\ [][engine.run = "MCTS::search" /\ engine'.i = engine.i + 1 /\ engine.i >= 1
          => \E k \in DOMAIN engine'.nodes[1].children :
               LET child == engine'.nodes[1].children[k]
                   before(c) == IF c \in DOMAIN engine.nodes
                                THEN engine.nodes[c].visits ELSE 0
               IN  /\ engine'.nodes[child].visits = before(child) + 1
                   /\ \A j \in DOMAIN engine'.nodes[1].children :
                        j # k => engine'.nodes[engine'.nodes[1].children[j]].visits
                                   = before(engine'.nodes[1].children[j])]_vars

\* a search in which a child of the root was expanded and a grandchild visited
C24_Witness ==
  /\ engine.run = "MCTS::search"
  /\ engine.i = MaxIterations
  /\ \E k \in DOMAIN engine.nodes[1].children :
       LET child == engine.nodes[engine.nodes[1].children[k]]
       IN  /\ child.visits = 2
           /\ child.children # << >>
           /\ engine.nodes[child.children[1]].visits = 1

\* C25: for every state S, evaluate(S) is the negation of evaluate(S'), where S' is
\* S with the occupants Black and White swapped, the tile colours Black and Gray
\* swapped, the inventories swapped and the side to move flipped, for any weight
\* tables.
C25_SwapNegatesEvaluation ==
  engine.run = "NTupleNetwork::evaluate" => engine.value = -engine.v_swapped

\* C26: canonicalization is idempotent: the board that evaluate works on, B
\* transformed by its canonical symmetry, has the canonical symmetry Identity and is
\* therefore its own canonical board, and a board whose hash equals the hash of its
\* mirror image gets Identity.
C26_CanonicalIdempotent ==
  engine.run = "NTupleNetwork::evaluate" =>
    LET again == get_canonical_symmetry(engine.canonical_board)
    IN  /\ again = "Identity"
        /\ transform_board(engine.canonical_board, again) = engine.canonical_board
        /\ board_hash(engine.board) = board_hash(transform_board(engine.board, "FlipH"))
             => engine.canonical_sym = "Identity"

\* a board that is not its own canonical board has been canonicalized
C26_Witness ==
  /\ engine.run = "NTupleNetwork::evaluate"
  /\ engine.canonical_sym = "FlipH"
  /\ engine.canonical_board # engine.board
  /\ engine.canonical_board = transform_board(engine.board, "FlipH")

\* C27: loading a weight file whose pattern counts or table sizes disagree with the
\* network in memory is a no-op: every piece, hand and tile table has the size and
\* the contents it had before the call.
C27_MismatchIsNoOp ==
  LET file == engine.file
      before == engine.before
      disagree ==
        \/ file.num_tuples # Len(before.weights)
        \/ \E i \in DOMAIN file.weights \cap DOMAIN before.weights :
             file.weights[i].size # before.weights[i].size
        \/ file.hand_size # before.hand_weights.size
        \/ file.num_tile_tuples # Len(before.tile_weights)
        \/ \E i \in DOMAIN file.tile_weights \cap DOMAIN before.tile_weights :
             file.tile_weights[i].size # before.tile_weights[i].size
  IN  (engine.run = "NTupleNetwork" /\ file.opens /\ disagree)
        => engine.network = before

C29_StateBlockRoundTrip ==
  \A s \in Sessions : \A i \in DOMAIN sent[s] :
    sent[s][i].type = "STATE" =>
      LET snapshot == sent[s][i].snapshot
          message == build_state_message(snapshot)
          lines == recv_lines(message)
          block == state_block(message)
          keys == {SubSeq(block[j], 1, find(block[j], "=", 1) - 1) : j \in DOMAIN block}
          parsed == parse_state_block(block)
      IN  /\ lines[Len(lines)] = <<"E", "N", "D">>
          /\ keys = { <<"g", "a", "m", "e", "_", "i", "d">>, <<"t", "u", "r", "n">>,
                      <<"s", "t", "a", "t", "u", "s">>, <<"l", "a", "s", "t">>,
                      <<"p", "i", "e", "c", "e", "s">>, <<"t", "i", "l", "e", "s">>,
                      <<"s", "t", "o", "c", "k", "_", "b">>,
                      <<"s", "t", "o", "c", "k", "_", "g">> }
          /\ \E j \in DOMAIN block :
               block[j] = <<"g", "a", "m", "e", "_", "i", "d", "=">>
                            \o to_string(snapshot.game_id)
          /\ parsed.ok
          /\ parsed.snapshot = [snapshot EXCEPT !.status = StatusText(@)]

\* C30: once the status is X_win, O_win or draw, no MOVE is accepted for that game:
\* until the game is reset (a new game_id, or the soft reset to the initial
\* position), the position, the status and the recorded results stay as they are.
C30_FinishedGameStaysFinished ==
  [][(/\ g_status \in {"X_win", "O_win", "draw"}
      /\ g_game_id' = g_game_id
      /\ ~(g_state' = GameState_reset /\ g_status' = "ongoing" /\ g_last_move' = <<>>))
       => /\ g_state' = g_state
          /\ g_status' = g_status
          /\ g_stats' = g_stats]_vars

C33_OneResetPerReadyPair ==
  [][\A s \in Sessions :
       (pc[s] = "ready_reset" /\ pc'[s] = "ready_snap")
         => all_players_ready(g_clients, session)]_vars

\* C34: the socket of a session is closed at most once: when the session's worker
\* leaves its loop and closes the socket, no failed broadcast has closed it before,
\* that is, the session is still active (active is cleared only together with a
\* close, by broadcast_state's catch block and by the worker itself).
C34_SocketClosedOnce ==
  [][\A s \in Sessions :
       (pc[s] # "closed" /\ pc'[s] = "closed") => session[s].active]_vars

\* C35: the base moves of the side to move are exactly, without repetition, the
\* moves from a cell holding one of its pieces, along a direction its tile
\* allows (the 4 orthogonal ones without tile, the 4 diagonal ones on a Black
\* tile, all 8 on a Gray tile), to the k-th cell in that direction, where that
\* cell is on the board and empty and the k - 1 cells before it hold pieces of
\* the side to move; so an opponent piece in the way yields no move.
C35_BaseMovesExact ==
  LET b == g_state.board
      p == g_state.to_move
      bases == base_moves(g_state)
      all8 == ((-1..1) \X (-1..1)) \ {<<0, 0>>}
      allowed(tile) ==
        IF tile = "None" THEN {d \in all8 : d[1] = 0 \/ d[2] = 0}
        ELSE IF tile = "Black" THEN {d \in all8 : d[1] # 0 /\ d[2] # 0}
        ELSE all8
      onboard(x, y) == x \in 0..4 /\ y \in 0..4
      reaches(x, y, d, k) ==
        /\ onboard(x + k * d[1], y + k * d[2])
        /\ b[((y + k * d[2]) * 5) + x + (k * d[1])].occupant = "None"
        /\ \A j \in 1..(k - 1) : b[((y + j * d[2]) * 5) + x + (j * d[1])].occupant = p
      expected ==
        UNION {UNION {{[MoveDefault EXCEPT !.sx = c % 5, !.sy = c \div 5,
                                           !.dx = (c % 5) + k * d[1],
                                           !.dy = (c \div 5) + k * d[2]] :
                         k \in {k \in 1..4 : reaches(c % 5, c \div 5, d, k)}} :
                      d \in allowed(b[c].tile)} :
                 c \in {c \in 0..24 : b[c].occupant = p}}
  IN  /\ {bases[i] : i \in 1..Len(bases)} = expected
      /\ Len(bases) = Cardinality(expected)

\* the side to move has a piece on a Gray tile that may step diagonally, and a
\* jump over one of its own pieces is among its base moves
C35_Witness ==
  LET b == g_state.board
      p == g_state.to_move
      bases == base_moves(g_state)
  IN  /\ last_op.op = "Play"
      /\ \E i \in 1..Len(bases) :
           /\ b[bases[i].sy * 5 + bases[i].sx].tile = "Gray"
           /\ bases[i].dx # bases[i].sx /\ bases[i].dy # bases[i].sy
      /\ \E i \in 1..Len(bases) :
           \/ bases[i].dx - bases[i].sx \in {2, -2}
           \/ bases[i].dy - bases[i].sy \in {2, -2}

\* C36: the entry alphabeta stores for a node has flag EXACT when the node's best
\* value lies strictly between the alpha and the beta the node was called with,
\* UPPER_BOUND when it is at most that alpha and LOWER_BOUND when it is at least
\* beta.  The root of a search is called with -infinity and +infinity, so the
\* entry it leaves for a root whose best value is finite is EXACT.
C36_FlagFollowsWindow ==
  engine.run = "AlphaBeta::search" =>
    \A entry \in engine.root :
      (-Infinity < entry.value /\ entry.value < Infinity) => entry.flag = "EXACT"

\* C37: no call of AlphaBeta::search is answered, at any node, by an entry of
\* the transposition table that was stored during an earlier call of search on
\* the same engine.
C37_NoEntryOfEarlierCallUsed ==
  (engine # NoRun /\ engine.run = "AlphaBeta::search again") => engine.earlier_cutoffs = 0

\* C38: a call of AlphaBeta::search with a negative max_depth goes by time, and
\* on a state with a legal move it returns a legal move of that state, the best
\* move of the deepest depth it has searched to the end.
C38_NegativeDepthGoesByTime ==
  (engine # NoRun /\ engine.run = "AlphaBeta::search by time"
     /\ legal_moves(engine.state) # << >>) =>
    LET legal == legal_moves(engine.state)
    IN  /\ effective_time_ms(engine.time_ms, engine.move_time) > 0
        /\ \E k \in 1..Len(legal) : legal[k] = engine.best_move

\* C39: in every state of a game played with legal moves the Black tiles on the
\* board and in the two stocks are 6 together, the Gray ones 2, and a move
\* leaves every tile that lies on the board where it is, with its colour.
C39_TilesConserved ==
  [][LET OnBoard(s, color) == Cardinality({c \in 0..24 : s.board[c].tile = color})
         Conserved(s) ==
           /\ OnBoard(s, "Black") + s.inv_black.black + s.inv_white.black = 6
           /\ OnBoard(s, "Gray") + s.inv_black.gray + s.inv_white.gray = 2
     IN  /\ Conserved(g_state)
         /\ Conserved(g_state')
         /\ \A c \in 0..24 :
              g_state.board[c].tile # "None" =>
                g_state'.board[c].tile = g_state.board[c].tile]_vars

\* both sides have placed a tile, one of them Gray, and the last move placed
\* one while tiles lay on the board
C39_Witness ==
  /\ last_op.op = "Play"
  /\ last_op.move.place_tile
  /\ g_state.inv_black.black + g_state.inv_black.gray < 4
  /\ g_state.inv_white.black + g_state.inv_white.gray < 4
  /\ \E c \in 0..24 : g_state.board[c].tile = "Gray"
  /\ Cardinality({c \in 0..24 : g_state.board[c].tile # "None"}) = 3

\* C40: in every state rules_legal_moves of the C port gives the same set of
\* moves as Rules::legal_moves, and a move applied with game_state_apply_move
\* gives the board, inventories and side to move that GameState::apply_move gives.
C40_PortAgrees ==
  LET cpp == legal_moves(g_state)
      port == rules_legal_moves(g_state)
      Same(a, b) == /\ a.board = b.board
                    /\ a.inv_black = b.inv_black /\ a.inv_white = b.inv_white
                    /\ a.to_move = b.to_move
  IN  /\ {cpp[k] : k \in 1..Len(cpp)} = {port[k] : k \in 1..Len(port)}
      /\ \A k \in 1..Len(cpp) :
           Same(game_state_apply_move(g_state, cpp[k]), apply_move(g_state, cpp[k]))

====
